---------------------------- MODULE Spec2Model ----------------------------
(***************************************************************************)
(* Model of the stress-test engine of terraform-aws-pypiserver             *)
(* (tests/stress_test.py): the request executor (PyPIStressTest), the      *)
(* scheduler loop of run_stress_test and the aggregator                    *)
(* _aggregate_metrics.                                                     *)
(*                                                                         *)
(* Conventions.                                                            *)
(*  - Python's None is the string "None".                                  *)
(*  - Wall-clock time is counted in ticks, TicksPerSecond to the second,   *)
(*    so that int() truncation of a float number of seconds is visible.    *)
(*  - The float parameters burst_multiplier and upload_ratio are the       *)
(*    fractions q / FracDen.  With FracDen = 4 every product and every     *)
(*    value is exact in binary floating point, so int(c * m) is            *)
(*    (c * q) \div FracDen.                                                 *)
(*  - A Python float quotient a / b is the reduced fraction Frac(a, b).    *)
(***************************************************************************)
EXTENDS Integers, Sequences, FiniteSets, TLC

(***************************************************************************)
(* Program constants.                                                      *)
(***************************************************************************)
\* success = response.status_code < 400 (_make_request)
ReadThreshold == 400
\* success = response.status_code < 500 (upload_package)
UploadThreshold == 500
\* burst_interval_seconds // 10
BurstCadence == 10
\* sleep_time = max(0, 10 - iteration_time)
Cadence == 10
\* diagnostics_process.join(timeout=120)
FleetJoinTimeout == 120
\* alb_diagnostics_process.join(timeout=30)
AlbJoinTimeout == 30
\* sorted_latencies[int(len(sorted_latencies) * 0.95)]
P95 == 95
\* sorted_latencies[int(len(sorted_latencies) * 0.99)]
P99 == 99
\* failed_metrics[:20]
ErrorSampleLimit == 20

(***************************************************************************)
(* Bounds of the model.                                                    *)
(***************************************************************************)
\* ticks per second of the model's clock
TicksPerSecond == 2
\* denominator of the fractional parameters (burst_multiplier, upload_ratio)
FracDen == 4
\* longest record list the aggregator is given in AggSpec (besides the scenarios)
MaxAggLen == 3
\* largest test_duration_seconds of a modelled run, in cadences
MaxDurationCadences == 2

\* The longest args_list, and the largest max_workers, of a direct call of
\* run_concurrent_operations.
MaxPlanLen == 3

None == "None"

Max(a, b) == IF a >= b THEN a ELSE b

RECURSIVE Gcd(_, _)
Gcd(a, b) == IF b = 0 THEN a ELSE Gcd(b, a % b)

\* What stands for the value of a / 0, which raises ZeroDivisionError.
DivisionFault == [num |-> 0, den |-> 0]

\* The float a / b (a >= 0, b >= 0) as a reduced fraction.
Frac(a, b) ==
    IF b = 0 THEN DivisionFault
    ELSE LET g == Gcd(a, b) IN [num |-> a \div g, den |-> b \div g]

\* The int 0 that the aggregator reports in place of a quotient.
Zero == [num |-> 0, den |-> 1]

\* A number (an int or a float without a fractional part) as a fraction.
Whole(n) == [num |-> n, den |-> 1]

(***************************************************************************)
(* Request Executor: PyPIStressTest._make_request and its callers.         *)
(***************************************************************************)
\* Status codes an HTTP response can carry (http.client accepts 100..999).
HttpStatuses == {200, 303, 399, 400, 401, 404, 409, 499, 500, 503}

\* Exceptions session.request / session.post / open can raise.
ExceptionKinds == {"ConnectionError", "ReadTimeout", "OSError"}

\* What one network call can end in: a response (whose body may or may not be
\* readable), or an exception.
Responses ==
    [kind : {"response"}, status_code : HttpStatuses, text_ok : BOOLEAN,
     exc : {None}]

Raised ==
    [kind : {"exception"}, status_code : {0}, text_ok : {FALSE},
     exc : ExceptionKinds]

Outcomes == Responses \cup Raised

\* str(e)
StrOfException(exc) == "str(" \o exc \o ")"

\* f"{type(e).__name__}: {str(e)}\n{traceback.format_exc()}"
TracebackOf(exc) == exc \o ": " \o StrOfException(exc) \o " traceback"

\* response.text[:1000], or the fallback text when reading the body raises
BodyOf(outcome) ==
    IF outcome.text_ok THEN "response.text[:1000]"
    ELSE "Could not read response body"

\* ExecuteCall with an except branch that keeps no error text.
ExecuteCallDroppingError(threshold, operation, package_name, url, start, latency, outcome) ==
    [timestamp |-> start,
     operation |-> operation,
     package_name |-> package_name,
     latency_ms |-> latency,
     status_code |-> outcome.status_code,
     success |-> outcome.kind = "response" /\ outcome.status_code < threshold,
     error |-> IF outcome.kind = "response" /\ outcome.status_code >= threshold
               THEN "response.reason" ELSE None,
     error_detail |->
         IF outcome.kind = "response" /\ outcome.status_code >= threshold
         THEN BodyOf(outcome) ELSE None,
     url |-> url]

\* The try/except of _make_request and of upload_package: they differ in the
\* threshold, the operation name and the url only.
ExecuteCall(threshold, operation, package_name, url, start, latency, outcome) ==
    IF outcome.kind = "response"
    THEN LET success == outcome.status_code < threshold
         IN  [timestamp |-> start,
              operation |-> operation,
              package_name |-> package_name,
              latency_ms |-> latency,
              status_code |-> outcome.status_code,
              success |-> success,
              error |-> IF success THEN None ELSE "response.reason",
              error_detail |-> IF success THEN None ELSE BodyOf(outcome),
              url |-> url]
    ELSE [timestamp |-> start,
          operation |-> operation,
          package_name |-> package_name,
          latency_ms |-> latency,
          status_code |-> 0,
          success |-> FALSE,
          error |-> StrOfException(outcome.exc),
          error_detail |-> TracebackOf(outcome.exc),
          url |-> url]

MakeRequest(path, operation, package_name, start, latency, outcome) ==
    ExecuteCall(ReadThreshold, operation, package_name, path, start, latency,
                outcome)

ListAllPackages(start, latency, outcome) ==
    MakeRequest("/simple/", "list_packages", None, start, latency, outcome)

GetPackageInfo(package_name, start, latency, outcome) ==
    MakeRequest("/simple/" \o package_name \o "/", "get_package", package_name,
                start, latency, outcome)

DownloadWheel(package_name, start, latency, outcome) ==
    MakeRequest("/packages/" \o package_name \o "-2.0.0-py3-none-any.whl",
                "download_wheel", package_name, start, latency, outcome)

\* UploadPackage with the read operations' threshold.
UploadPackageReadThreshold(package_path, start, latency, outcome) ==
    ExecuteCall(ReadThreshold, "upload_package", package_path, "/", start,
                latency, outcome)

UploadPackage(package_path, start, latency, outcome) ==
    ExecuteCall(UploadThreshold, "upload_package", package_path, "/", start,
                latency, outcome)

\* The k-th call of simulate_pip_install (lines 299-303, 306, 310) and the
\* record it returns.
InstallStep(k, package_name, start, latency, outcome) ==
    CASE k = 1 -> MakeRequest("/" \o package_name \o "/",
                              "get_package_redirect", package_name, start,
                              latency, outcome)
      [] k = 2 -> GetPackageInfo(package_name, start, latency, outcome)
      [] k = 3 -> DownloadWheel(package_name, start, latency, outcome)

\* simulate_pip_install: three sequential calls, one record each.  outcomes and
\* latencies are the three calls' in order.  The three calls of one install
\* start within the same tick of the model's clock.
SimulatePipInstall(package_name, start, latencies, outcomes) ==
    [k \in 1..3 |->
        InstallStep(k, package_name, start, latencies[k], outcomes[k])]

ReadOperations ==
    {"list_packages", "get_package", "get_package_redirect", "download_wheel"}

(***************************************************************************)
(* Metrics Aggregator: _aggregate_metrics.                                 *)
(***************************************************************************)
RECURSIVE SumSeq(_)
SumSeq(s) == IF s = << >> THEN 0 ELSE Head(s) + SumSeq(Tail(s))

\* [m.latency_ms for m in ms]
Latencies(ms) == [i \in 1..Len(ms) |-> ms[i].latency_ms]

IsSuccess(m) == m.success

IsFailure(m) == ~m.success

\* min(latencies), max(latencies) of a non-empty list
SeqMin(latencies) ==
    CHOOSE x \in {latencies[i] : i \in 1..Len(latencies)} :
        \A i \in 1..Len(latencies) : x <= latencies[i]

SeqMax(latencies) ==
    CHOOSE x \in {latencies[i] : i \in 1..Len(latencies)} :
        \A i \in 1..Len(latencies) : x >= latencies[i]

\* The latencies left in the order of the records.
Unsorted(latencies) == latencies

\* sorted(latencies)
Sorted(latencies) == SortSeq(latencies, LAMBDA a, b : a < b)

\* PercentileIndex taken over the last index n - 1 instead of the length n.
PercentileIndexOfLast(n, pct) == ((n - 1) * pct) \div 100

\* int(n * 0.95), int(n * 0.99): the float product truncated.  For every
\* n < 200000 it equals floor(n * pct / 100).
PercentileIndex(n, pct) == (n * pct) \div 100

\* sorted_latencies[int(len(sorted_latencies) * p)], Python's 0-based index
Percentile(latencies, pct) ==
    Sorted(latencies)[PercentileIndex(Len(latencies), pct) + 1]

\* statistics.mean
Mean(latencies) == Frac(SumSeq(latencies), Len(latencies))

\* statistics.median: the middle value, or the mean of the two middle values
Median(latencies) ==
    LET s == Sorted(latencies)
        n == Len(s)
    IN  IF n % 2 = 1 THEN Whole(s[(n \div 2) + 1])
        ELSE Frac(s[n \div 2] + s[(n \div 2) + 1], 2)

\* SuccessfulLatencies without its filter.
AllLatencies(metrics) == Latencies(metrics)

\* [m.latency_ms for m in metrics if m.success]
SuccessfulLatencies(metrics) == Latencies(SelectSeq(metrics, IsSuccess))

\* The latency statistics of lines 563-573.
LatencyStats(metrics) ==
    LET successful_latencies == SuccessfulLatencies(metrics)
    IN  IF successful_latencies # << >>
        THEN [latency_min |-> SeqMin(successful_latencies),
              latency_max |-> SeqMax(successful_latencies),
              latency_mean |-> Mean(successful_latencies),
              latency_median |-> Median(successful_latencies),
              latency_p95 |-> Percentile(successful_latencies, P95),
              latency_p99 |-> Percentile(successful_latencies, P99)]
        ELSE [latency_min |-> 0, latency_max |-> 0, latency_mean |-> Zero,
              latency_median |-> Zero, latency_p95 |-> 0, latency_p99 |-> 0]

\* sum(1 for m in metrics if lo <= m.status_code < hi)
CountStatusIn(metrics, lo, hi) ==
    Cardinality({i \in 1..Len(metrics) :
                    lo <= metrics[i].status_code /\ metrics[i].status_code < hi})

\* status_codes[m.status_code] = status_codes.get(m.status_code, 0) + 1
StatusCodeCounts(metrics) ==
    [c \in {metrics[i].status_code : i \in 1..Len(metrics)} |->
        Cardinality({i \in 1..Len(metrics) : metrics[i].status_code = c})]

\* The per-operation breakdown of lines 584-599.
OperationStats(metrics) ==
    [op_name \in {metrics[i].operation : i \in 1..Len(metrics)} |->
        LET op_metrics == SelectSeq(metrics, LAMBDA m : m.operation = op_name)
            op_latencies == SuccessfulLatencies(op_metrics)
        IN  [count |-> Len(op_metrics),
             success_rate |-> Frac(Len(op_latencies), Len(op_metrics)),
             mean_latency_ms |->
                 IF op_latencies # << >> THEN Mean(op_latencies) ELSE Zero,
             p95_latency_ms |->
                 IF op_latencies # << >> THEN Percentile(op_latencies, P95)
                 ELSE 0]]

\* datetime.fromtimestamp(t).isoformat()
IsoFormat(t) == << "isoformat", t >>

\* One entry of error_samples.
ErrorSample(m) ==
    [timestamp |-> IsoFormat(m.timestamp),
     operation |-> m.operation,
     package_name |-> m.package_name,
     url |-> m.url,
     status_code |-> m.status_code,
     error |-> m.error,
     error_detail |-> m.error_detail]

\* ErrorSamples without its limit.
ErrorSamplesUnlimited(metrics) ==
    LET failed_metrics == SelectSeq(metrics, IsFailure)
    IN  [i \in 1..Len(failed_metrics) |-> ErrorSample(failed_metrics[i])]

\* failed_metrics[:20], one sample each
ErrorSamples(metrics) ==
    LET failed_metrics == SelectSeq(metrics, IsFailure)
        n == IF Len(failed_metrics) < ErrorSampleLimit THEN Len(failed_metrics)
             ELSE ErrorSampleLimit
    IN  [i \in 1..n |-> ErrorSample(failed_metrics[i])]

\* sum(1 for m in metrics if m.success)
CountSuccessful(metrics) == Len(SelectSeq(metrics, IsSuccess))

\* CountFailed counting the HTTP error statuses only.
CountFailedByStatus(metrics) == CountStatusIn(metrics, 400, 600)

\* failed = total - successful
CountFailed(metrics) == Len(metrics) - CountSuccessful(metrics)

\* ErrorRate without its guard.
ErrorRateUnguarded(failed, total) == Frac(failed, total)

\* error_rate = failed / total if total > 0 else 0
ErrorRate(failed, total) == IF total > 0 THEN Frac(failed, total) ELSE Zero

\* _aggregate_metrics; start and end are in ticks.
AggregateMetrics(start, end, metrics) ==
    LET duration == end - start
        total == Len(metrics)
        successful == CountSuccessful(metrics)
        failed == CountFailed(metrics)
        stats == LatencyStats(metrics)
    IN  [start_time |-> IsoFormat(start),
         end_time |-> IsoFormat(end),
         duration_seconds |-> Frac(duration, TicksPerSecond),
         total_requests |-> total,
         successful_requests |-> successful,
         failed_requests |-> failed,
         error_rate |-> ErrorRate(failed, total),
         latency_min |-> stats.latency_min,
         latency_max |-> stats.latency_max,
         latency_mean |-> stats.latency_mean,
         latency_median |-> stats.latency_median,
         latency_p95 |-> stats.latency_p95,
         latency_p99 |-> stats.latency_p99,
         requests_per_second |->
             IF duration > 0 THEN Frac(total * TicksPerSecond, duration)
             ELSE Zero,
         status_code_counts |-> StatusCodeCounts(metrics),
         error_5xx_count |-> CountStatusIn(metrics, 500, 600),
         error_4xx_count |-> CountStatusIn(metrics, 400, 500),
         operations |-> OperationStats(metrics),
         error_samples |-> ErrorSamples(metrics)]

(***************************************************************************)
(* Burst Scheduler: run_stress_test.                                       *)
(***************************************************************************)
VARIABLES
    params,                  \* the arguments of run_stress_test
    pc,                      \* the control thread's position
    now,                     \* time.time(), in ticks since the run started
    start_time,              \* datetime.now() at line 408
    end_time,                \* datetime.now() at line 526
    iteration_start,
    elapsed,
    iteration,
    is_burst,
    workers,
    num_uploads,
    num_downloads,
    metrics,                 \* the records of the current iteration
    all_metrics,
    max_workers,             \* the connection pool's size
    diagnostics_process,     \* the iteration's fleet collector process, or None
    alb_diagnostics_process, \* the iteration's routing-layer process, or None
    alive,                   \* the collector processes that are running
    warnings,                \* LOG.warning lines, in order
    batches,                 \* sizes of the lists run_concurrent_operations returned
    results,                 \* the Aggregated Results run_stress_test returned
    returned,                \* what the last direct executor call returned
    call_outcomes,           \* what the network did to that call's requests
    install_calls,           \* the calls a simulate_pip_install under way has made
    lg_pc,                   \* position of a call of run_concurrent_operations
    lg_args,                 \* its operation_func, len(args_list), max_workers
    futures,                 \* the futures of line 331, in submission order
    lg_results,              \* its results list (lines 328-343)
    cloud,                   \* what the fleet's nodes and the AWS APIs answer
    children,                \* the collector processes started, by name
    disk,                    \* the files of output_dir, by name
    test_pc,                 \* position of the test that called the run
    saved,                   \* the consolidated reports save_diagnostics wrote
    node_pc,                 \* position of a call of _collect_instance_diagnostics
    answers,                 \* what the node answered to its commands, in order
    diag,                    \* its InstanceDiagnostics (line 136)
    debug_log                \* its LOG.debug lines

\* The variables of run_stress_test itself, but the set of running
\* collector processes.
stressVarsButAlive ==
    << params, pc, now, start_time, end_time, iteration_start, elapsed,
       iteration, is_burst, workers, num_uploads, num_downloads, metrics,
       all_metrics, max_workers, diagnostics_process, alb_diagnostics_process,
       warnings, batches, results >>

\* The variables of a direct call of the executor.
execVars == << returned, call_outcomes, install_calls >>

\* The variables of a call of run_concurrent_operations.
loadVars == << lg_pc, lg_args, futures, lg_results >>

\* The variables of the diagnostics collectors and of their files.
diagVars == << cloud, children, disk, test_pc, saved >>

\* The variables of a call of _collect_instance_diagnostics.
nodeVars == << node_pc, answers, diag, debug_log >>

vars ==
    << params, pc, now, start_time, end_time, iteration_start, elapsed,
       iteration, is_burst, workers, num_uploads, num_downloads, metrics,
       all_metrics, max_workers, diagnostics_process, alb_diagnostics_process,
       alive, warnings, batches, results, execVars, loadVars, diagVars, nodeVars >>

\* package_names = [f"test-package-{i:03d}" for i in range(num_packages)]
PackageNames == {"test-package-000"}

\* package_paths, when a list is supplied
PackagePaths == {"test_package_000-1.0.0-py3-none-any"}

\* Arguments of the modelled runs.  burst_interval_seconds 0 stands for None
\* (both are falsy); burst_multiplier and upload_ratio are numerators over
\* FracDen.
Clients == {1, 2}

BurstIntervals == {0, 5, 15, 20}

Multipliers == {FracDen, 2 * FracDen - 1}

UploadRatios == {0, FracDen - 1, FracDen}

Durations == {0, 2 * Cadence, Cadence * MaxDurationCadences}

\* Left out are the runs that differ from a modelled one only in an argument
\* the run never reads: the artifact list when no upload is planned, the
\* collectors when no iteration is a burst.  Runs with collectors are
\* modelled for one baseline client, one burst multiplier, a download-only
\* mix, two cadences and a target that answers normally.
RunParams ==
    {p \in [concurrent_clients : Clients,
            test_duration_seconds : Durations,
            burst_interval_seconds : BurstIntervals,
            burst_multiplier : Multipliers,
            upload_ratio : UploadRatios,
            package_paths : BOOLEAN,
            diagnostics_collector : BOOLEAN,
            alb_diagnostics_collector : BOOLEAN] :
        /\ p.upload_ratio = 0 => ~p.package_paths
        /\ p.burst_interval_seconds \div BurstCadence = 0 =>
               ~p.diagnostics_collector /\ ~p.alb_diagnostics_collector
        /\ p.diagnostics_collector \/ p.alb_diagnostics_collector =>
               /\ p.concurrent_clients = 1
               /\ p.upload_ratio = 0
               /\ p.burst_multiplier = 2 * FracDen - 1
               /\ p.test_duration_seconds = 2 * Cadence
        /\ p.test_duration_seconds \in {0, Cadence * MaxDurationCadences}
               \/ p.diagnostics_collector \/ p.alb_diagnostics_collector
        /\ p.test_duration_seconds = 0 =>
               /\ p.concurrent_clients = 1
               /\ p.burst_interval_seconds = 0
               /\ p.burst_multiplier = FracDen
               /\ p.upload_ratio = 0}

\* int(x) of the float x = n / FracDen, n >= 0
IntOfFrac(n) == n \div FracDen

\* The pool sized for the burst's workers with no headroom.
MaxWorkersNoHeadroom(concurrent_clients, burst_multiplier) ==
    (concurrent_clients * burst_multiplier) \div FracDen

\* The pool sized for the baseline's workers only.
MaxWorkersOfBaseline(concurrent_clients, burst_multiplier) ==
    (concurrent_clients * 12) \div 10

\* max_workers = int(concurrent_clients * burst_multiplier * 1.2)
\* (1.2 = 12 / 10, the product truncated)
MaxWorkers(concurrent_clients, burst_multiplier) ==
    (concurrent_clients * burst_multiplier * 12) \div (FracDen * 10)

\* burst_interval_seconds // 10
BurstDivisor(burst_interval_seconds) ==
    burst_interval_seconds \div BurstCadence

\* iteration % (burst_interval_seconds // 10) raises ZeroDivisionError
BurstRaises(burst_interval_seconds) ==
    burst_interval_seconds # 0 /\ BurstDivisor(burst_interval_seconds) = 0

\* is_burst = (burst_interval_seconds and
\*             iteration % (burst_interval_seconds // 10) == 0), when it does
\* not raise
IsBurst(i, burst_interval_seconds) ==
    /\ burst_interval_seconds # 0
    /\ i % BurstDivisor(burst_interval_seconds) = 0

\* round(x) of the float x = n / d: to the nearest integer, a tie to the even
\* one.
RoundHalfEven(n, d) ==
    LET q == n \div d
        r == n % d
    IN  IF 2 * r < d THEN q
        ELSE IF 2 * r > d THEN q + 1
        ELSE IF q % 2 = 0 THEN q ELSE q + 1

\* Workers with round() in place of int().
WorkersRounded(burst, concurrent_clients, burst_multiplier) ==
    IF burst THEN RoundHalfEven(concurrent_clients * burst_multiplier, FracDen)
    ELSE concurrent_clients

\* workers = int(concurrent_clients * burst_multiplier) if is_burst
\*           else concurrent_clients
Workers(burst, concurrent_clients, burst_multiplier) ==
    IF burst THEN IntOfFrac(concurrent_clients * burst_multiplier)
    ELSE concurrent_clients

\* NumUploads with round() in place of int().
NumUploadsRounded(w, upload_ratio) == RoundHalfEven(w * upload_ratio, FracDen)

\* num_uploads = int(workers * upload_ratio)
NumUploads(w, upload_ratio) == IntOfFrac(w * upload_ratio)

\* num_downloads = workers - num_uploads
NumDownloads(w, upload_ratio) == w - NumUploads(w, upload_ratio)

\* No call of run_concurrent_operations is under way.
NoCall == [operation_func |-> None, n |-> 0, max_workers |-> 0]

\* What the nodes of the fleet do to the commands run on them, in the order
\* of asg.instances, and whether the AWS APIs of the routing layer answer.
NodeBehaviours == {"ok", "stderr", "iostat_missing", "raises"}

CalmCloud == [asg |-> << "ok", "ok" >>, alb |-> "ok"]

\* The clouds of the modelled runs: every node answers, or the second node
\* fails fatally; the routing layer's APIs answer, or raise.
RunClouds ==
    [asg : {<< "ok", "ok" >>, << "ok", "raises" >>}, alb : {"ok", "raises"}]

\* A run without a collector never reads what it would have answered.
CloudsOf(p) ==
    {c \in RunClouds :
        /\ ~p.diagnostics_collector => c.asg = CalmCloud.asg
        /\ ~p.alb_diagnostics_collector => c.alb = CalmCloud.alb}

InitRun(p) ==
    /\ params = p
    /\ pc = "loop"
    /\ now = 0
    /\ start_time = 0
    /\ end_time = 0
    /\ iteration_start = 0
    /\ elapsed = 0
    /\ iteration = 0
    /\ is_burst = FALSE
    /\ workers = 0
    /\ num_uploads = 0
    /\ num_downloads = 0
    /\ metrics = << >>
    /\ all_metrics = << >>
    /\ max_workers = MaxWorkers(p.concurrent_clients, p.burst_multiplier)
    /\ diagnostics_process = None
    /\ alb_diagnostics_process = None
    /\ alive = {}
    /\ warnings = << >>
    /\ batches = << >>
    /\ results = << >>
    /\ returned = << >>
    /\ call_outcomes = << >>
    /\ install_calls = None
    /\ lg_pc = "idle"
    /\ lg_args = NoCall
    /\ futures = << >>
    /\ lg_results = << >>
    /\ children = << >>
    /\ disk = << >>
    /\ test_pc = "run"
    /\ saved = << >>
    /\ node_pc = "idle"
    /\ answers = << >>
    /\ diag = None
    /\ debug_log = << >>

Init == \E p \in RunParams : InitRun(p) /\ cloud \in CloudsOf(p)

\* What the target does to the calls of one batch: it answers normally, it
\* answers every call with a server error, or it cannot be reached.
TargetStates == {"up", "erroring", "down"}

\* The states of the target during the given run.
TargetsOf(p) ==
    IF p.diagnostics_collector \/ p.alb_diagnostics_collector
    THEN {"up"} ELSE TargetStates

\* The target's answer to one call of the given operation.
TargetOutcome(target, operation) ==
    CASE target = "up" ->
            [kind |-> "response",
             status_code |-> CASE operation = "get_package_redirect" -> 303
                               [] operation = "upload_package" -> 409
                               [] OTHER -> 200,
             text_ok |-> TRUE, exc |-> None]
      [] target = "erroring" ->
            [kind |-> "response", status_code |-> 503, text_ok |-> TRUE,
             exc |-> None]
      [] OTHER ->
            [kind |-> "exception", status_code |-> 0, text_ok |-> FALSE,
             exc |-> "ConnectionError"]

\* The latency, in ms, of a call in the given target state.
TargetLatency(target) ==
    CASE target = "up" -> 20 [] target = "erroring" -> 40 [] OTHER -> 5

\* How long one call of run_concurrent_operations takes, in ticks: less than
\* a cadence, or more.
BatchTicks == {TicksPerSecond + 1, (Cadence + 2) * TicksPerSecond}

\* How long a join that ends with the process's exit waits, in ticks.
JoinTicks == {1, Cadence * TicksPerSecond}

\* name=f"diagnostics-iter{iteration}", name=f"alb-diagnostics-iter{iteration}"
FleetProcess(i) == "diagnostics-iter" \o ToString(i)

AlbProcess(i) == "alb-diagnostics-iter" \o ToString(i)

\* n copies of the records one operation returned, flattened
RECURSIVE Repeat(_, _)
Repeat(records, n) == IF n = 0 THEN << >> ELSE records \o Repeat(records, n - 1)

\* Lines 418-419: the loop's test holds.
EnterIteration ==
    /\ pc = "loop"
    /\ elapsed < params.test_duration_seconds * TicksPerSecond
    /\ iteration_start' = now
    /\ pc' = "determine"
    /\ UNCHANGED << params, now, start_time, end_time, elapsed, iteration,
                    is_burst, workers, num_uploads, num_downloads, metrics,
                    all_metrics, max_workers, diagnostics_process,
                    alb_diagnostics_process, alive, warnings, batches, results,
                    execVars, loadVars, diagVars, nodeVars >>

\* Lines 421-444: burst determination and the worker count; the modulo by
\* burst_interval_seconds // 10 = 0 raises ZeroDivisionError out of the run.
DetermineBurst ==
    /\ pc = "determine"
    /\ IF BurstRaises(params.burst_interval_seconds)
       THEN /\ pc' = "raised"
            /\ UNCHANGED << is_burst, workers, diagnostics_process,
                            alb_diagnostics_process >>
       ELSE /\ is_burst' = IsBurst(iteration, params.burst_interval_seconds)
            /\ workers' = Workers(is_burst', params.concurrent_clients,
                                  params.burst_multiplier)
            /\ diagnostics_process' = None
            /\ alb_diagnostics_process' = None
            /\ pc' = "start_diagnostics"
    /\ UNCHANGED << params, now, start_time, end_time, iteration_start, elapsed,
                    iteration, num_uploads, num_downloads, metrics, all_metrics,
                    max_workers, alive, warnings, batches, results,
                    execVars, loadVars, diagVars, nodeVars >>

\* Whether the fatal failure of a node is raised out of collect_snapshot
\* (line 108 is in no try block).
FleetRaises(asg) == \E i \in 1..Len(asg) : asg[i] = "raises"

\* The stderr lines _collect_instance_diagnostics records for a node whose
\* commands write to stderr (lines 147-148, 163-164, 172-173, 182-183).
StderrErrors ==
    << "docker stats stderr", "free stderr", "top stderr", "iostat stderr" >>

\* asdict of the InstanceDiagnostics of a node that does not raise: io_stats
\* is unset when iostat is not installed (lines 184-187), errors holds the
\* stderr lines.
InstanceDiagnostics(instance_id, behaviour) ==
    [instance_id |-> instance_id,
     io_stats |-> behaviour # "iostat_missing",
     errors |-> IF behaviour = "stderr" THEN StderrErrors ELSE << >>]

\* asdict of the ClusterDiagnostics of lines 111-117, when no node raises
ClusterDiagnostics(asg, i, burst, worker_count) ==
    [iteration |-> i,
     is_burst |-> burst,
     worker_count |-> worker_count,
     instances |-> [k \in 1..Len(asg) |-> InstanceDiagnostics(k, asg[k])]]

\* asdict of the ALBSnapshot of lines 136-152 (its targets and tasks are
\* not modelled)
ALBSnapshot(i, burst, worker_count) ==
    [iteration |-> i,
     is_burst |-> burst,
     worker_count |-> worker_count,
     instances |-> << >>]

\* The beginning of the names of a collector's files.
Stem(flavor) ==
    IF flavor = "fleet" THEN "diagnostics_" ELSE "alb_diagnostics_"

\* No file.
NoFile == << >>

\* f"diagnostics_iter{iteration}_{now:%Y%m%d_%H%M%S}.json" and
\* f"alb_diagnostics_iter{iteration}_{now:%Y%m%d_%H%M%S}.json"
\* A file name is the sequence of its parts.
SnapshotFile(flavor, i, second) ==
    << Stem(flavor), "iter", ToString(i), "_", ToString(second), ".json" >>

\* multiprocessing.Process(target=collector.collect_snapshot,
\*                         args=(iteration, is_burst, workers), daemon=True)
\* after start()
StartedProcess(flavor, i, burst, worker_count) ==
    [flavor |-> flavor, iteration |-> i, is_burst |-> burst,
     worker_count |-> worker_count, step |-> "collecting", exitcode |-> 0,
     logged_error |-> FALSE, file |-> NoFile]

\* open(snapshot_file, "w"): the file exists, and is empty or holds the
\* beginning of the dump.
OpenedFile(process, flavor, data, second) ==
    [flavor |-> flavor, iteration |-> data.iteration, second |-> second,
     complete |-> FALSE, writers |-> {process}, data |-> data]

\* The collector processes and the files after the process has collected its
\* data at time t: the fleet collector dies of a node's fault (exit code 1),
\* the routing-layer collector logs an API fault and returns, and otherwise
\* the snapshot file is opened for writing.
ChildCollects(w, process, t) ==
    LET c == w.children[process]
        second == t \div TicksPerSecond
        file == SnapshotFile(c.flavor, c.iteration, second)
        data == IF c.flavor = "fleet"
                THEN ClusterDiagnostics(cloud.asg, c.iteration, c.is_burst,
                                        c.worker_count)
                ELSE ALBSnapshot(c.iteration, c.is_burst, c.worker_count)
        opened ==
            IF file \in DOMAIN w.disk
            THEN [w.disk EXCEPT ![file].complete = FALSE,
                                ![file].writers = @ \cup {process},
                                ![file].data = data]
            ELSE (file :> OpenedFile(process, c.flavor, data, second))
                     @@ w.disk
    IN  IF c.flavor = "fleet" /\ FleetRaises(cloud.asg)
        THEN [children |-> [w.children EXCEPT ![process].step = "exited",
                                              ![process].exitcode = 1],
              disk |-> w.disk]
        ELSE IF c.flavor = "alb" /\ cloud.alb = "raises"
        THEN [children |-> [w.children EXCEPT ![process].step = "exited",
                                              ![process].logged_error = TRUE],
              disk |-> w.disk]
        ELSE [children |-> [w.children EXCEPT ![process].step = "writing",
                                              ![process].file = file],
              disk |-> opened]

\* json.dump has written the whole snapshot and the file is closed.
ChildWrites(w, process) ==
    [children |-> [w.children EXCEPT ![process].step = "written"],
     disk |-> [w.disk EXCEPT ![w.children[process].file].complete = TRUE]]

\* collect_snapshot returns and the process ends.
ChildExits(w, process) ==
    [children |-> [w.children EXCEPT ![process].step = "exited"],
     disk |-> w.disk]

\* The process runs from where it is to its end.
ChildFinishes(w, process, t) ==
    LET w1 == IF w.children[process].step = "collecting"
              THEN ChildCollects(w, process, t) ELSE w
        w2 == IF w1.children[process].step = "writing"
              THEN ChildWrites(w1, process) ELSE w1
    IN  IF w2.children[process].step = "written"
        THEN ChildExits(w2, process) ELSE w2

\* is_alive() of the processes
StillAlive(processes, ch) == {q \in processes : ch[q].step # "exited"}

\* A collector started in every iteration.
CollectorStartedAlways(burst, collector) == collector

\* if is_burst and diagnostics_collector:
CollectorStarted(burst, collector) == burst /\ collector

\* Lines 446-468: the collectors' processes are started in a burst iteration.
StartDiagnostics ==
    /\ pc = "start_diagnostics"
    /\ diagnostics_process' =
           IF CollectorStarted(is_burst, params.diagnostics_collector)
           THEN FleetProcess(iteration) ELSE None
    /\ alb_diagnostics_process' =
           IF CollectorStarted(is_burst, params.alb_diagnostics_collector)
           THEN AlbProcess(iteration) ELSE None
    /\ alive' = alive \cup ({diagnostics_process', alb_diagnostics_process'}
                            \ {None})
    /\ children' =
           [q \in {diagnostics_process'} \ {None} |->
               StartedProcess("fleet", iteration, is_burst, workers)]
           @@ [q \in {alb_diagnostics_process'} \ {None} |->
                  StartedProcess("alb", iteration, is_burst, workers)]
           @@ children
    /\ pc' = "split"
    /\ UNCHANGED << params, now, start_time, end_time, iteration_start, elapsed,
                    iteration, is_burst, workers, num_uploads, num_downloads,
                    metrics, all_metrics, max_workers, warnings, batches,
                    results, execVars, loadVars, nodeVars, cloud, disk, test_pc,
                    saved >>

\* Lines 473-477: the split into uploads and downloads.
SplitWorkers ==
    /\ pc = "split"
    /\ num_uploads' = NumUploads(workers, params.upload_ratio)
    /\ num_downloads' = NumDownloads(workers, params.upload_ratio)
    /\ metrics' = << >>
    /\ pc' = "downloads"
    /\ UNCHANGED << params, now, start_time, end_time, iteration_start, elapsed,
                    iteration, is_burst, workers, all_metrics, max_workers,
                    diagnostics_process, alb_diagnostics_process, alive,
                    warnings, batches, results,
                    execVars, loadVars, diagVars, nodeVars >>

\* Lines 480-487: the download batch, num_downloads simulated installs.
RunDownloads ==
    /\ pc = "downloads"
    /\ IF num_downloads > 0
       THEN \E target \in TargetsOf(params), package \in PackageNames,
               d \in BatchTicks :
               LET install ==
                       SimulatePipInstall(
                           package, now,
                           [k \in 1..3 |-> TargetLatency(target)],
                           << TargetOutcome(target, "get_package_redirect"),
                              TargetOutcome(target, "get_package"),
                              TargetOutcome(target, "download_wheel") >>)
                   download_metrics == Repeat(install, num_downloads)
               IN  /\ metrics' = metrics \o download_metrics
                   /\ batches' = Append(batches, Len(download_metrics))
                   /\ now' = now + d
       ELSE UNCHANGED << metrics, batches, now >>
    /\ pc' = "uploads"
    /\ UNCHANGED << params, start_time, end_time, iteration_start, elapsed,
                    iteration, is_burst, workers, num_uploads, num_downloads,
                    all_metrics, max_workers, diagnostics_process,
                    alb_diagnostics_process, alive, warnings, results,
                    execVars, loadVars, diagVars, nodeVars >>

\* The upload batch issued whenever an upload is planned, artifact list or
\* not.
UploadsIssuedWithoutArtifacts(n, package_paths) == n > 0

\* if num_uploads > 0 and package_paths:
UploadsIssued(n, package_paths) == n > 0 /\ package_paths

\* Lines 490-497: the upload batch, num_uploads uploads.
RunUploads ==
    /\ pc = "uploads"
    /\ IF UploadsIssued(num_uploads, params.package_paths)
       THEN \E target \in TargetsOf(params), path \in PackagePaths,
               d \in BatchTicks :
               LET upload ==
                       << UploadPackage(path, now, TargetLatency(target),
                                        TargetOutcome(target,
                                                      "upload_package")) >>
                   upload_metrics == Repeat(upload, num_uploads)
               IN  /\ metrics' = metrics \o upload_metrics
                   /\ batches' = Append(batches, Len(upload_metrics))
                   /\ now' = now + d
       ELSE UNCHANGED << metrics, batches, now >>
    /\ pc' = "extend"
    /\ UNCHANGED << params, start_time, end_time, iteration_start, elapsed,
                    iteration, is_burst, workers, num_uploads, num_downloads,
                    all_metrics, max_workers, diagnostics_process,
                    alb_diagnostics_process, alive, warnings, results,
                    execVars, loadVars, diagVars, nodeVars >>

\* An extend that replaces the list's contents.
ExtendReplacing(list, items) == items

\* list.extend(items)
Extend(list, items) == list \o items

\* Line 499: all_metrics.extend(metrics)
ExtendMetrics ==
    /\ pc = "extend"
    /\ all_metrics' = Extend(all_metrics, metrics)
    /\ pc' = "join_fleet"
    /\ UNCHANGED << params, now, start_time, end_time, iteration_start, elapsed,
                    iteration, is_burst, workers, num_uploads, num_downloads,
                    metrics, max_workers, diagnostics_process,
                    alb_diagnostics_process, alive, warnings, batches, results,
                    execVars, loadVars, diagVars, nodeVars >>

\* A join that kills the process when the timeout passes.
JoinKilling(process, timeout, warning) ==
    /\ now' = now + timeout * TicksPerSecond
    /\ alive' = alive \ {process}
    /\ warnings' = Append(warnings, warning)
    /\ children' = [children EXCEPT ![process].step = "exited"]
    /\ disk' = disk

\* process.join(timeout) of a process that is alive: the process ends
\* within the timeout, or the whole timeout passes and it is still running.
Join(process, timeout, warning) ==
    \/ \E d \in JoinTicks :
          /\ d <= timeout * TicksPerSecond
          /\ now' = now + d
          /\ LET w == ChildFinishes([children |-> children, disk |-> disk],
                                    process, now)
             IN  children' = w.children /\ disk' = w.disk
          /\ alive' = alive \ {process}
          /\ warnings' = warnings
    \/ /\ now' = now + timeout * TicksPerSecond
       /\ alive' = alive
       /\ warnings' = Append(warnings, warning)
       /\ UNCHANGED << children, disk >>

\* Lines 502-508: the bounded join of the fleet collector.
JoinFleet ==
    /\ pc = "join_fleet"
    /\ IF diagnostics_process # None /\ diagnostics_process \in alive
       THEN Join(diagnostics_process, FleetJoinTimeout,
                 "EC2 diagnostics collection timed out after 120s")
       ELSE UNCHANGED << now, alive, warnings, children, disk >>
    /\ pc' = "join_alb"
    /\ UNCHANGED << params, start_time, end_time, iteration_start, elapsed,
                    iteration, is_burst, workers, num_uploads, num_downloads,
                    metrics, all_metrics, max_workers, diagnostics_process,
                    alb_diagnostics_process, batches, results,
                    execVars, loadVars, nodeVars, cloud, test_pc, saved >>

\* Lines 510-516: the bounded join of the routing-layer collector.
JoinAlb ==
    /\ pc = "join_alb"
    /\ IF alb_diagnostics_process # None /\ alb_diagnostics_process \in alive
       THEN Join(alb_diagnostics_process, AlbJoinTimeout,
                 "ALB/ECS diagnostics collection timed out after 30s")
       ELSE UNCHANGED << now, alive, warnings, children, disk >>
    /\ pc' = "pace"
    /\ UNCHANGED << params, start_time, end_time, iteration_start, elapsed,
                    iteration, is_burst, workers, num_uploads, num_downloads,
                    metrics, all_metrics, max_workers, diagnostics_process,
                    alb_diagnostics_process, batches, results,
                    execVars, loadVars, nodeVars, cloud, test_pc, saved >>

\* iteration_time = int(time.time() - iteration_start), in seconds
IterationTime(t, started) == (t - started) \div TicksPerSecond

\* A sleep of one cadence whatever the iteration took.
SleepTimeOfOneCadence(iteration_time) == Cadence

\* sleep_time = max(0, 10 - iteration_time), in seconds
SleepTime(iteration_time) == Max(0, Cadence - iteration_time)

\* Lines 519-524: the pacing sleep, then elapsed and the iteration counter.
Pace ==
    /\ pc = "pace"
    /\ now' = now + SleepTime(IterationTime(now, iteration_start))
                        * TicksPerSecond
    /\ elapsed' = now' - start_time
    /\ iteration' = iteration + 1
    /\ pc' = "loop"
    /\ UNCHANGED << params, start_time, end_time, iteration_start, is_burst,
                    workers, num_uploads, num_downloads, metrics, all_metrics,
                    max_workers, diagnostics_process, alb_diagnostics_process,
                    alive, warnings, batches, results,
                    execVars, loadVars, diagVars, nodeVars >>

\* Lines 526-531: the loop's test fails; the records are aggregated and the
\* result returned.
Aggregate ==
    /\ pc = "loop"
    /\ ~(elapsed < params.test_duration_seconds * TicksPerSecond)
    /\ end_time' = now
    /\ results' = Append(results,
                         AggregateMetrics(start_time, end_time', all_metrics))
    /\ pc' = "done"
    /\ UNCHANGED << params, now, start_time, iteration_start, elapsed,
                    iteration, is_burst, workers, num_uploads, num_downloads,
                    metrics, all_metrics, max_workers, diagnostics_process,
                    alb_diagnostics_process, alive, warnings, batches,
                    execVars, loadVars, diagVars, nodeVars >>

\* A collector process collects its data and opens its snapshot file, or
\* fails.
CollectorCollects ==
    /\ \E process \in alive :
          /\ children[process].step = "collecting"
          /\ LET w == ChildCollects([children |-> children, disk |-> disk],
                                    process, now)
             IN  /\ children' = w.children
                 /\ disk' = w.disk
                 /\ alive' = StillAlive(alive, w.children)
    /\ UNCHANGED << stressVarsButAlive, execVars, loadVars, nodeVars, cloud, test_pc,
                    saved >>

\* A collector process completes the dump of its snapshot.
CollectorWrites ==
    /\ \E process \in alive :
          /\ children[process].step = "writing"
          /\ LET w == ChildWrites([children |-> children, disk |-> disk],
                                  process)
             IN  children' = w.children /\ disk' = w.disk
    /\ UNCHANGED << stressVarsButAlive, alive, execVars, loadVars, nodeVars, cloud,
                    test_pc, saved >>

\* A collector process that is running exits (its target returned).
CollectorExits ==
    /\ \E process \in alive :
          /\ children[process].step = "written"
          /\ children' = ChildExits([children |-> children, disk |-> disk],
                                    process).children
          /\ alive' = alive \ {process}
    /\ UNCHANGED << stressVarsButAlive, execVars, loadVars, nodeVars, cloud, disk,
                    test_pc, saved >>

\* The snapshot files of a collector: output_dir.glob("diagnostics_iter*.json")
\* and output_dir.glob("alb_diagnostics_iter*.json")
SnapshotFiles(dk, flavor) ==
    {f \in DOMAIN dk :
        /\ Len(f) >= 3
        /\ f[1] = Stem(flavor)
        /\ f[2] = "iter"
        /\ f[Len(f)] = ".json"}

\* sorted(...) of snapshot files: by name, which is by iteration and then by
\* time of writing (for the iteration numbers of one digit that the modelled
\* runs have).
RECURSIVE SortedFiles(_, _)
SortedFiles(dk, files) ==
    IF files = {} THEN << >>
    ELSE LET first ==
                 CHOOSE f \in files :
                     \A g \in files :
                         \/ dk[f].iteration < dk[g].iteration
                         \/ /\ dk[f].iteration = dk[g].iteration
                            /\ dk[f].second <= dk[g].second
         IN  << first >> \o SortedFiles(dk, files \ {first})

\* json.load raises JSONDecodeError on a file that is empty or holds only
\* the beginning of a dump.
LoadRaises(dk, files) == \E f \in files : ~dk[f].complete

\* The consolidated report of save_diagnostics: the snapshots loaded from the
\* files, in the files' order.
Consolidated(dk, flavor) ==
    LET files == SortedFiles(dk, SnapshotFiles(dk, flavor))
    IN  [flavor |-> flavor,
         snapshots |-> [k \in 1..Len(files) |-> dk[files[k]].data]]

\* f"diagnostics_{timestamp}.json", f"diagnostics_{timestamp}.md" and
\* f"alb_diagnostics_{timestamp}.json", f"alb_diagnostics_{timestamp}.md"
ReportFile(flavor, second, suffix) ==
    << Stem(flavor), ToString(second), suffix >>

\* A written report file.
Report(flavor, second, data) ==
    [flavor |-> flavor, second |-> second, complete |-> TRUE,
     writers |-> {"save_diagnostics"}, data |-> data]

\* A save that removes the snapshot files it has consolidated.
WriteReportsAndCleanUp(dk, flavor, second, data) ==
    LET kept == DOMAIN dk \ SnapshotFiles(dk, flavor)
    IN  (ReportFile(flavor, second, ".json") :> Report(flavor, second, data))
            @@ [f \in kept |-> dk[f]]

\* The files after save_diagnostics has written its two reports (lines
\* 248-255 of diagnostics.py, 358-372 of alb_diagnostics.py): open(path, "w")
\* creates the file, or truncates a file of that name.
WriteReports(dk, flavor, second, data) ==
    (ReportFile(flavor, second, ".json") :> Report(flavor, second, data))
        @@ (ReportFile(flavor, second, ".md") :> Report(flavor, second, data))
        @@ dk

\* save_diagnostics(output_dir) of one collector, called in the parent, whose
\* in-memory list is empty because every snapshot was taken in a child
\* process: it loads the snapshot files and writes the consolidated report,
\* or warns that there is nothing to save, or raises what json.load raises.
SaveDiagnostics(flavor, warning, next) ==
    IF SnapshotFiles(disk, flavor) = {}
    THEN /\ warnings' = Append(warnings, warning)
         /\ saved' = saved
         /\ disk' = disk
         /\ test_pc' = next
    ELSE IF LoadRaises(disk, SnapshotFiles(disk, flavor))
    THEN /\ warnings' = warnings
         /\ saved' = saved
         /\ disk' = disk
         /\ test_pc' = "save_raised"
    ELSE /\ warnings' = warnings
         /\ saved' = Append(saved, Consolidated(disk, flavor))
         /\ disk' = WriteReports(disk, flavor, now \div TicksPerSecond,
                                 Consolidated(disk, flavor))
         /\ test_pc' = next

\* The variables of run_stress_test itself, but the warnings logged.
stressVarsButWarnings ==
    << params, pc, now, start_time, end_time, iteration_start, elapsed,
       iteration, is_burst, workers, num_uploads, num_downloads, metrics,
       all_metrics, max_workers, diagnostics_process, alb_diagnostics_process,
       alive, batches, results >>

\* The caller of the run saves the fleet collector's diagnostics once the
\* run has returned.
SaveFleetDiagnostics ==
    /\ pc = "done"
    /\ test_pc = "run"
    /\ params.diagnostics_collector \/ params.alb_diagnostics_collector
    /\ IF params.diagnostics_collector
       THEN SaveDiagnostics("fleet", "No diagnostics to save", "save_alb")
       ELSE test_pc' = "save_alb" /\ UNCHANGED << warnings, saved, disk >>
    /\ UNCHANGED << stressVarsButWarnings, execVars, loadVars, nodeVars, cloud,
                    children >>

\* The caller then saves the routing-layer collector's diagnostics.
SaveAlbDiagnostics ==
    /\ test_pc = "save_alb"
    /\ IF params.alb_diagnostics_collector
       THEN SaveDiagnostics("alb", "No ALB/ECS diagnostics to save",
                            "finished")
       ELSE test_pc' = "finished" /\ UNCHANGED << warnings, saved, disk >>
    /\ UNCHANGED << stressVarsButWarnings, execVars, loadVars, nodeVars, cloud,
                    children >>

\* The parent process ends, and with it its daemon processes that are still
\* running (daemon=True, lines 453 and 465): they are terminated where they
\* are.
ParentExits ==
    /\ test_pc \in {"finished", "save_raised"}
    /\ test_pc' = "exited"
    /\ children' = [q \in DOMAIN children |->
                       IF q \in alive
                       THEN [children[q] EXCEPT !.step = "terminated"]
                       ELSE children[q]]
    /\ alive' = {}
    /\ UNCHANGED << stressVarsButAlive, execVars, loadVars, nodeVars, cloud, disk,
                    saved >>

Next ==
    \/ EnterIteration
    \/ DetermineBurst
    \/ StartDiagnostics
    \/ SplitWorkers
    \/ RunDownloads
    \/ RunUploads
    \/ ExtendMetrics
    \/ JoinFleet
    \/ JoinAlb
    \/ Pace
    \/ Aggregate
    \/ CollectorCollects
    \/ CollectorWrites
    \/ CollectorExits
    \/ SaveFleetDiagnostics
    \/ SaveAlbDiagnostics
    \/ ParentExits

Spec == Init /\ [][Next]_vars

(***************************************************************************)
(* LongSpec: a run of four cadences in which every iteration is a burst,   *)
(* with the routing-layer collector, whose join budget is shorter than the *)
(* run.                                                                    *)
(***************************************************************************)
LongRunParams ==
    [concurrent_clients |-> 1,
     test_duration_seconds |-> 4 * Cadence,
     burst_interval_seconds |-> BurstCadence,
     burst_multiplier |-> 2 * FracDen - 1,
     upload_ratio |-> 0,
     package_paths |-> FALSE,
     diagnostics_collector |-> FALSE,
     alb_diagnostics_collector |-> TRUE]

LongInit == InitRun(LongRunParams) /\ cloud = CalmCloud

LongSpec == LongInit /\ [][Next]_vars

(***************************************************************************)
(* ExecSpec: one of the executor's methods called directly on a fresh      *)
(* client, with every outcome of the network call.                         *)
(***************************************************************************)
\* latency_ms of a direct call
ExecLatencies == {5, 20}

\* The run whose loop body never runs: its client is constructed, nothing more.
IdleParams == {p \in RunParams : p.test_duration_seconds = 0}

ExecInit == \E p \in IdleParams : InitRun(p) /\ cloud = CalmCloud

\* The variables of run_stress_test itself.
stressVars ==
    << params, pc, now, start_time, end_time, iteration_start, elapsed,
       iteration, is_burst, workers, num_uploads, num_downloads, metrics,
       all_metrics, max_workers, diagnostics_process, alb_diagnostics_process,
       alive, warnings, batches, results >>

runVars ==
    << params, pc, now, start_time, end_time, iteration_start, elapsed,
       iteration, is_burst, workers, num_uploads, num_downloads, metrics,
       all_metrics, max_workers, diagnostics_process, alb_diagnostics_process,
       alive, warnings, batches, results, loadVars, diagVars, nodeVars >>

CallListAllPackages ==
    /\ returned = << >>
    /\ install_calls = None
    /\ \E outcome \in Outcomes, latency \in ExecLatencies :
          /\ returned' = << ListAllPackages(now, latency, outcome) >>
          /\ call_outcomes' = << outcome >>
    /\ install_calls' = install_calls
    /\ UNCHANGED runVars

CallGetPackageInfo ==
    /\ returned = << >>
    /\ install_calls = None
    /\ \E outcome \in Outcomes, latency \in ExecLatencies,
          package \in PackageNames :
          /\ returned' = << GetPackageInfo(package, now, latency, outcome) >>
          /\ call_outcomes' = << outcome >>
    /\ install_calls' = install_calls
    /\ UNCHANGED runVars

CallDownloadWheel ==
    /\ returned = << >>
    /\ install_calls = None
    /\ \E outcome \in Outcomes, latency \in ExecLatencies,
          package \in PackageNames :
          /\ returned' = << DownloadWheel(package, now, latency, outcome) >>
          /\ call_outcomes' = << outcome >>
    /\ install_calls' = install_calls
    /\ UNCHANGED runVars

CallUploadPackage ==
    /\ returned = << >>
    /\ install_calls = None
    /\ \E outcome \in Outcomes, latency \in ExecLatencies,
          path \in PackagePaths :
          /\ returned' = << UploadPackage(path, now, latency, outcome) >>
          /\ call_outcomes' = << outcome >>
    /\ install_calls' = install_calls
    /\ UNCHANGED runVars

\* After k calls simulate_pip_install is at its call k + 1, whatever the
\* calls made ended in; position 4 is its return.
InstallPositionShortCircuit(calls) ==
    IF \E k \in 1..Len(calls) : ~calls[k].record.success THEN 4
    ELSE Len(calls) + 1

InstallPosition(calls) == Len(calls) + 1

\* Line 295: results = []
CallSimulatePipInstall ==
    /\ returned = << >>
    /\ install_calls = None
    /\ install_calls' = << >>
    /\ UNCHANGED << returned, call_outcomes, runVars >>

\* The k-th call of the install under way is made and its record appended
\* to results.
InstallCall(k, latency) ==
    /\ install_calls # None
    /\ InstallPosition(install_calls) = k
    /\ \E outcome \in Outcomes, package \in PackageNames :
          install_calls' =
              Append(install_calls,
                     [outcome |-> outcome,
                      record |-> InstallStep(k, package, now, latency,
                                             outcome)])
    /\ UNCHANGED << returned, call_outcomes, runVars >>

\* Lines 299-303: the probe of the legacy path
InstallRedirect == InstallCall(1, 5)

\* Line 306: the fetch of the canonical metadata
InstallGetPackageInfo == InstallCall(2, 20)

\* Line 310: the download of the artifact
InstallDownloadWheel == InstallCall(3, 20)

\* Line 312: return results
InstallReturns ==
    /\ install_calls # None
    /\ InstallPosition(install_calls) = 4
    /\ returned' = [k \in 1..Len(install_calls) |-> install_calls[k].record]
    /\ call_outcomes' =
           [k \in 1..Len(install_calls) |-> install_calls[k].outcome]
    /\ install_calls' = None
    /\ UNCHANGED runVars

ExecNext ==
    \/ CallListAllPackages
    \/ CallGetPackageInfo
    \/ CallDownloadWheel
    \/ CallUploadPackage
    \/ CallSimulatePipInstall
    \/ InstallRedirect
    \/ InstallGetPackageInfo
    \/ InstallDownloadWheel
    \/ InstallReturns

ExecSpec == ExecInit /\ [][ExecNext]_vars

(***************************************************************************)
(* LoadSpec: run_concurrent_operations called directly on a fresh client,  *)
(* with the operations the run passes to it.  The operations are the       *)
(* executor's, which catch every Exception of the network call: none of    *)
(* their futures raises, and line 340 is not reached.                      *)
(***************************************************************************)

\* client.simulate_pip_install (line 485), client.upload_package (line 495)
PoolOperations == {"simulate_pip_install", "upload_package"}

\* isinstance(result, list)
IsList(operation_func) == operation_func = "simulate_pip_install"

\* What operation_func(*args) returns when it starts at time t against the
\* target in the given state: a list of records, or one record (as a list of
\* one).
RunOperation(operation_func, t, target) ==
    IF operation_func = "simulate_pip_install"
    THEN SimulatePipInstall(
             CHOOSE package \in PackageNames : TRUE, t,
             [k \in 1..3 |-> TargetLatency(target)],
             << TargetOutcome(target, "get_package_redirect"),
                TargetOutcome(target, "get_package"),
                TargetOutcome(target, "download_wheel") >>)
    ELSE << UploadPackage(CHOOSE path \in PackagePaths : TRUE, t,
                          TargetLatency(target),
                          TargetOutcome(target, "upload_package")) >>

\* executor.submit(operation_func, *args): a future not yet started
PendingFuture ==
    [state |-> "pending", starts |-> 0, value |-> << >>, collected |-> FALSE]

\* The futures in the given state.
FuturesIn(fs, state) == {i \in 1..Len(fs) : fs[i].state = state}

\* A pool that starts a queued operation whatever is running.
WorkerFreeAlways(running, limit) == TRUE

\* ThreadPoolExecutor(max_workers=max_workers): a queued operation starts
\* when fewer than max_workers are running.
WorkerFree(running, limit) == running < limit

\* Collect that keeps the records of successful requests only.
CollectSuccessesOnly(rs, value, is_list) ==
    rs \o SelectSeq(value, LAMBDA m : m.success)

\* Lines 335-339: results.extend(result) of a list, results.append(result)
\* of a record
Collect(rs, value, is_list) ==
    IF is_list THEN rs \o value ELSE Append(rs, value[1])

\* Lines 328-331: the pool is created and every operation of args_list
\* submitted.
Submit ==
    /\ lg_pc = "idle"
    /\ \E operation_func \in PoolOperations, n \in 0..MaxPlanLen,
          limit \in 1..MaxPlanLen :
          /\ lg_args' = [operation_func |-> operation_func, n |-> n,
                         max_workers |-> limit]
          /\ futures' = [i \in 1..n |-> PendingFuture]
    /\ lg_results' = << >>
    /\ lg_pc' = "as_completed"
    /\ UNCHANGED << stressVars, execVars, diagVars, nodeVars >>

\* A worker thread takes the operation at the head of the queue.
WorkerStarts ==
    /\ lg_pc = "as_completed"
    /\ FuturesIn(futures, "pending") # {}
    /\ WorkerFree(Cardinality(FuturesIn(futures, "running")),
                  lg_args.max_workers)
    /\ LET i == CHOOSE j \in FuturesIn(futures, "pending") :
                    \A k \in FuturesIn(futures, "pending") : j <= k
       IN  futures' = [futures EXCEPT ![i].state = "running",
                                      ![i].starts = @ + 1]
    /\ UNCHANGED << lg_pc, lg_args, lg_results, stressVars, execVars,
                    diagVars, nodeVars >>

\* A running operation returns what it measured.
OperationReturns ==
    /\ lg_pc = "as_completed"
    /\ \E i \in FuturesIn(futures, "running"), target \in TargetStates :
          futures' = [futures EXCEPT
                          ![i].state = "done",
                          ![i].value = RunOperation(lg_args.operation_func,
                                                    now, target)]
    /\ UNCHANGED << lg_pc, lg_args, lg_results, stressVars, execVars,
                    diagVars, nodeVars >>

\* Lines 333-339: as_completed yields a finished future and its result is
\* added to results.
CollectFuture ==
    /\ lg_pc = "as_completed"
    /\ \E i \in FuturesIn(futures, "done") :
          /\ ~futures[i].collected
          /\ lg_results' = Collect(lg_results, futures[i].value,
                                   IsList(lg_args.operation_func))
          /\ futures' = [futures EXCEPT ![i].collected = TRUE]
    /\ UNCHANGED << lg_pc, lg_args, stressVars, execVars, diagVars, nodeVars >>

\* Lines 333, 343: as_completed is exhausted, the pool shut down, results
\* returned.
ReturnResults ==
    /\ lg_pc = "as_completed"
    /\ \A i \in 1..Len(futures) : futures[i].collected
    /\ lg_pc' = "returned"
    /\ UNCHANGED << lg_args, futures, lg_results, stressVars, execVars,
                    diagVars, nodeVars >>

LoadInit == \E p \in IdleParams : InitRun(p) /\ cloud = CalmCloud

LoadNext ==
    \/ Submit
    \/ WorkerStarts
    \/ OperationReturns
    \/ CollectFuture
    \/ ReturnResults

LoadSpec == LoadInit /\ [][LoadNext]_vars

(***************************************************************************)
(* NodeSpec: _collect_instance_diagnostics called directly on one node,    *)
(* with every answer of the node to each of the five commands.  A text is  *)
(* a sequence of phrases.                                                  *)
(***************************************************************************)
\* stdout of a command: nothing, or a number with white space around it
Stdouts == {"", " 2 "}

\* stderr of a command that returned
Stderrs ==
    {<< >>, << "WARNING:", "permission denied" >>,
     << "bash:", "iostat:", "command not found" >>}

\* str(e) of what execute_command raises
Faults ==
    {<< "bash:", "iostat:", "command not found" >>,
     << "[Errno 2]", "No such file", "or directory" >>,
     << "TimeoutError:", "command timed out" >>}

\* What instance.execute_command ends in: it returns (exit code, stdout,
\* stderr), or it raises.
NodeAnswers ==
    [kind : {"returned"}, stdout : Stdouts, stderr : Stderrs, exc : {<< >>}]
    \cup
    [kind : {"raised"}, stdout : {""}, stderr : {<< >>}, exc : Faults]

\* phrase in text
Mentions(text, phrase) == \E i \in 1..Len(text) : text[i] = phrase

\* stdout.strip()
Strip(stdout) == IF stdout = " 2 " THEN "2" ELSE stdout

\* int(text) of a stripped stdout
IntOfText(text) == CASE text = "2" -> 2

\* stdout.strip() if stdout else None
StripOrNone(stdout) == IF stdout # "" THEN Strip(stdout) ELSE None

\* f"{command} stderr: {stderr}"
ErrorLine(command, stderr) == << command \o " stderr", stderr >>

\* Line 136: InstanceDiagnostics(instance_id=..., timestamp=...); the other
\* fields take their defaults (the timestamp is not modelled).
NewInstanceDiagnostics(instance_id) ==
    [instance_id |-> instance_id, container_stats |-> None,
     memory_stats |-> None, cpu_stats |-> None, io_stats |-> None,
     task_count |-> None, errors |-> << >>]

\* Lines 146-148, 162-164, 171-173: the field is set from stdout, and a
\* non-empty stderr is appended to errors.
WithStats(d, field, command, a) ==
    [d EXCEPT ![field] = StripOrNone(a.stdout),
              !.errors = IF a.stderr # << >>
                         THEN Append(@, ErrorLine(command, a.stderr)) ELSE @]

\* Lines 151-155: _, stdout, _ = ...; the count is read from stdout and the
\* command's stderr is dropped.
WithTaskCount(d, a) ==
    [d EXCEPT !.task_count = IF Strip(a.stdout) # ""
                             THEN IntOfText(Strip(a.stdout)) ELSE 0]

\* Lines 181-183: io_stats is set from stdout, and a non-empty stderr is
\* appended to errors unless it says that the command was not found.
WithIoStats(d, a) ==
    [d EXCEPT !.io_stats = StripOrNone(a.stdout),
              !.errors = IF a.stderr # << >>
                            /\ ~Mentions(a.stderr, "command not found")
                         THEN Append(@, ErrorLine("iostat", a.stderr)) ELSE @]

\* An except branch that tolerates no fault of iostat.
IostatToleratedNever(exc) == FALSE

\* Line 186: "command not found" in str(e) or "No such file" in str(e)
IostatTolerated(exc) ==
    Mentions(exc, "command not found") \/ Mentions(exc, "No such file")

\* What a step of the call leaves unchanged.
nodeFrame == << stressVars, execVars, loadVars, diagVars >>

\* Lines 136-139: the call starts on a node.
CallCollectInstanceDiagnostics ==
    /\ node_pc = "idle"
    /\ diag' = NewInstanceDiagnostics("i-0")
    /\ node_pc' = "docker_stats"
    /\ UNCHANGED << answers, debug_log, nodeFrame >>

\* A command outside every try block: its fault propagates out of the call,
\* and otherwise the diagnostics are updated and the next command is run.
RunCommand(position, a, updated, next) ==
    /\ node_pc = position
    /\ answers' = Append(answers, a)
    /\ IF a.kind = "raised"
       THEN node_pc' = "raised" /\ diag' = None
       ELSE node_pc' = next /\ diag' = updated
    /\ UNCHANGED << debug_log, nodeFrame >>

\* Lines 142-148: docker stats
DockerStats ==
    \E a \in NodeAnswers :
        RunCommand("docker_stats", a,
                   WithStats(diag, "container_stats", "docker stats", a),
                   "docker_ps")

\* Lines 151-155: docker ps
DockerPs ==
    \E a \in NodeAnswers :
        RunCommand("docker_ps", a, WithTaskCount(diag, a), "free")

\* Lines 158-164: free
Free ==
    \E a \in NodeAnswers :
        RunCommand("free", a, WithStats(diag, "memory_stats", "free", a),
                   "top")

\* Lines 167-173: top
Top ==
    \E a \in NodeAnswers :
        RunCommand("top", a, WithStats(diag, "cpu_stats", "top", a), "iostat")

\* Lines 176-191: iostat, in its try block, and the return of the call.
Iostat ==
    /\ node_pc = "iostat"
    /\ \E a \in NodeAnswers :
          /\ answers' = Append(answers, a)
          /\ IF a.kind = "returned"
             THEN /\ diag' = WithIoStats(diag, a)
                  /\ node_pc' = "returned"
                  /\ debug_log' = debug_log
             ELSE IF IostatTolerated(a.exc)
             THEN /\ diag' = diag
                  /\ node_pc' = "returned"
                  /\ debug_log' = Append(debug_log, "iostat not available")
             ELSE /\ diag' = None
                  /\ node_pc' = "raised"
                  /\ debug_log' = debug_log
    /\ UNCHANGED nodeFrame

NodeInit == \E p \in IdleParams : InitRun(p) /\ cloud = CalmCloud

NodeNext ==
    \/ CallCollectInstanceDiagnostics
    \/ DockerStats
    \/ DockerPs
    \/ Free
    \/ Top
    \/ Iostat

NodeSpec == NodeInit /\ [][NodeNext]_vars

(***************************************************************************)
(* AggSpec: _aggregate_metrics applied to a given record list.             *)
(***************************************************************************)
\* What the calls behind the aggregator's input records ended in.
AggOutcomes ==
    {o \in Outcomes :
        \/ o.kind = "exception" /\ o.exc = "ConnectionError"
        \/ o.kind = "response" /\ o.text_ok
                               /\ o.status_code \in {200, 404, 409, 503}}

AggLatencies == {10, 20}

\* The records the input lists are made of: downloads and uploads, as the
\* executor returns them.
AggRecords ==
    {DownloadWheel("test-package-000", 0, l, o) :
        l \in AggLatencies, o \in AggOutcomes}
    \cup
    {UploadPackage("test_package_000-1.0.0-py3-none-any", 0, l, o) :
        l \in AggLatencies, o \in AggOutcomes}

\* Every list of at most n records.
ListsUpTo(n) == UNION {[1..k -> AggRecords] : k \in 0..n}

Response(status_code) ==
    [kind |-> "response", status_code |-> status_code, text_ok |-> TRUE,
     exc |-> None]

\* Ten successful downloads with latencies 10, 20, ..., 100.
TenLatencies ==
    [i \in 1..10 |->
        DownloadWheel("test-package-000", 0, 10 * i, Response(200))]

\* A hundred downloads: every twentieth fails with status 500 after 900 ms,
\* the other 95 succeed with latencies spread over 10..50 ms.
HundredRequests ==
    [i \in 1..100 |->
        IF i % 20 = 0
        THEN DownloadWheel("test-package-000", 0, 900, Response(500))
        ELSE DownloadWheel("test-package-000", 0, 10 + ((7 * i) % 41),
                           Response(200))]

\* Thirty downloads made one per second: every fifth succeeds, the other 24
\* fail with 404, with 500 or on the connection.
ManyFailures ==
    [i \in 1..30 |->
        DownloadWheel("test-package-000", i, 20,
                      IF i % 5 = 0 THEN Response(200)
                      ELSE IF i % 3 = 0 THEN Response(404)
                      ELSE IF i % 3 = 1 THEN Response(500)
                      ELSE [kind |-> "exception", status_code |-> 0,
                            text_ok |-> FALSE, exc |-> "ConnectionError"])]

\* Two successes with unlike latencies and two unlike failures.
MixedRequests ==
    << DownloadWheel("test-package-000", 0, 20, Response(200)),
       DownloadWheel("test-package-000", 1, 10, Response(404)),
       UploadPackage("test_package_000-1.0.0-py3-none-any", 2, 10,
                     Response(409)),
       DownloadWheel("test-package-000", 3, 20, Response(503)) >>

AggInputs ==
    ListsUpTo(MaxAggLen)
        \cup {TenLatencies, HundredRequests, ManyFailures, MixedRequests}

\* The run is at its loop's test with the duration used up and the given
\* records accumulated.
AggInit ==
    /\ \E p \in IdleParams : params = p
    /\ pc = "loop"
    /\ now = 2 * Cadence * TicksPerSecond
    /\ start_time = 0
    /\ end_time = 0
    /\ iteration_start = 0
    /\ elapsed = now
    /\ iteration = 2
    /\ is_burst = FALSE
    /\ workers = 0
    /\ num_uploads = 0
    /\ num_downloads = 0
    /\ metrics = << >>
    /\ all_metrics \in AggInputs
    /\ max_workers = 1
    /\ diagnostics_process = None
    /\ alb_diagnostics_process = None
    /\ alive = {}
    /\ warnings = << >>
    /\ batches = << >>
    /\ results = << >>
    /\ returned = << >>
    /\ call_outcomes = << >>
    /\ install_calls = None
    /\ lg_pc = "idle"
    /\ lg_args = NoCall
    /\ futures = << >>
    /\ lg_results = << >>
    /\ cloud = CalmCloud
    /\ children = << >>
    /\ disk = << >>
    /\ test_pc = "run"
    /\ saved = << >>
    /\ node_pc = "idle"
    /\ answers = << >>
    /\ diag = None
    /\ debug_log = << >>

AggNext == Aggregate

AggSpec == AggInit /\ [][AggNext]_vars

(***************************************************************************)
(* The control thread's steps, and the run under weak fairness of them:    *)
(* the thread is never suspended forever.                                  *)
(***************************************************************************)
SchedulerStep ==
    \/ EnterIteration
    \/ DetermineBurst
    \/ StartDiagnostics
    \/ SplitWorkers
    \/ RunDownloads
    \/ RunUploads
    \/ ExtendMetrics
    \/ JoinFleet
    \/ JoinAlb
    \/ Pace
    \/ Aggregate

FairSpec == Spec /\ WF_vars(SchedulerStep)

\* A run whose burst determination does not raise returns a result.
RunTerminatesUnlessBurstRaises ==
    ~BurstRaises(params.burst_interval_seconds)
        => <>(pc = "done" /\ Len(results) = 1)

\* Positions of the control thread at which the iteration's is_burst and
\* workers are set.
AfterDetermine ==
    {"start_diagnostics", "split", "downloads", "uploads", "extend",
     "join_fleet", "join_alb", "pace"}

\* Positions at which the iteration's num_uploads and num_downloads are set.
AfterSplit ==
    {"downloads", "uploads", "extend", "join_fleet", "join_alb", "pace"}

(***************************************************************************)
(* Claims.                                                                 *)
(***************************************************************************)

\* C1: every record the executor returns has success exactly when its
\* status code is not 0 and below the operation's threshold, 500 for an
\* upload and 400 for every read operation: a download with 404 fails and
\* with 200 succeeds, an upload with 409 succeeds and with 503 fails.
C1_SuccessIffBelowThreshold ==
    \A i \in 1..Len(returned) :
        LET m == returned[i]
            threshold == IF m.operation = "upload_package" THEN 500 ELSE 400
        IN  /\ m.success <=> (m.status_code # 0 /\ m.status_code < threshold)
            /\ m.operation \in ReadOperations \cup {"upload_package"}
            /\ m.operation = "download_wheel" /\ m.status_code = 404
                   => ~m.success
            /\ m.operation = "download_wheel" /\ m.status_code = 200
                   => m.success
            /\ m.operation = "upload_package" /\ m.status_code = 409
                   => m.success
            /\ m.operation = "upload_package" /\ m.status_code = 503
                   => ~m.success

\* C1 witness: an upload answered 409 was returned as a success.
C1_Witness ==
    \E i \in 1..Len(returned) :
        /\ returned[i].operation = "upload_package"
        /\ returned[i].status_code = 409
        /\ returned[i].success

\* C2: every call returns one record per request whatever the network did;
\* a request that raised (connect error, timeout, other fault) yields
\* status_code 0, success false and an error and an error_detail; a record
\* with success true has neither.
C2_FaultsAreRecords ==
    /\ Len(returned) = Len(call_outcomes)
    /\ \A i \in 1..Len(returned) :
          LET m == returned[i]
          IN  /\ call_outcomes[i].kind = "exception"
                     => /\ m.status_code = 0
                        /\ ~m.success
                        /\ m.error # None
                        /\ m.error_detail # None
              /\ m.success => m.error = None /\ m.error_detail = None

\* C2 witness: an upload whose post timed out was returned as a record with
\* status_code 0.
C2_Witness ==
    /\ Len(returned) = 1
    /\ call_outcomes[1].kind = "exception"
    /\ call_outcomes[1].exc = "ReadTimeout"
    /\ returned[1].operation = "upload_package"
    /\ returned[1].status_code = 0
    /\ returned[1].error # None

\* C3: every run terminates and returns an Aggregated Result: at every
\* moment the run either has returned its one result or its control thread
\* has a next step to take.
C3_EveryRunReturnsAResult ==
    \/ pc = "done" /\ Len(results) = 1
    \/ ENABLED SchedulerStep

\* C4: the result's total_requests is successful_requests + failed_requests
\* and is the number of records the load generator returned over all the
\* iterations; the two counts are the numbers of records with success true
\* and false.
C4_TotalsAddUp ==
    pc = "done" =>
        LET r == results[1]
        IN  /\ r.total_requests = r.successful_requests + r.failed_requests
            /\ r.total_requests = SumSeq(batches)
            /\ r.successful_requests =
                   Cardinality({i \in 1..Len(all_metrics) :
                                   all_metrics[i].success})
            /\ r.failed_requests =
                   Cardinality({i \in 1..Len(all_metrics) :
                                   ~all_metrics[i].success})

\* C4 witness: a run of two iterations returned a result with successes and
\* failures.
C4_Witness ==
    /\ pc = "done"
    /\ iteration = 2
    /\ Len(batches) >= 2
    /\ results[1].successful_requests > 0
    /\ results[1].failed_requests > 0

\* C5: error_rate is failed_requests / total_requests when there are
\* records, and 0, without a division fault, when there are none.
C5_ErrorRate ==
    pc = "done" =>
        LET r == results[1]
            total == Len(all_metrics)
            failed == Cardinality({i \in 1..total : ~all_metrics[i].success})
        IN  IF total > 0
            THEN /\ r.error_rate.den > 0
                 /\ r.error_rate.num * total = failed * r.error_rate.den
            ELSE r.error_rate = Zero

\* C5 witness: a result over three records of which one failed.
C5_Witness ==
    /\ pc = "done"
    /\ results[1].total_requests = 3
    /\ results[1].failed_requests = 1
    /\ results[1].error_rate = [num |-> 1, den |-> 3]

\* The successful records' positions, and the order statistic of their
\* latencies: v is the element at 0-based index k of the ascending order iff
\* at most k latencies are below v and more than k are at most v.
SuccessfulAt(ms) == {i \in 1..Len(ms) : ms[i].success}

IsElementAtSortedIndex(ms, v, k) ==
    /\ \E i \in SuccessfulAt(ms) : ms[i].latency_ms = v
    /\ Cardinality({i \in SuccessfulAt(ms) : ms[i].latency_ms < v}) <= k
    /\ Cardinality({i \in SuccessfulAt(ms) : ms[i].latency_ms <= v}) > k

\* k = floor(pct / 100 * n)
IsFloorOfShare(k, pct, n) == 100 * k <= pct * n /\ pct * n < 100 * (k + 1)

\* C6: over n > 0 successful latencies p95 and p99 are the elements at index
\* floor(0.95 n) and floor(0.99 n) of the ascending order, indices that are
\* below n (p95 of 10, 20, ..., 100 is 100); with no successful record all
\* six latency statistics are 0.
C6_NearestRankPercentiles ==
    pc = "done" =>
        LET r == results[1]
            n == Cardinality(SuccessfulAt(all_metrics))
        IN  /\ n > 0 =>
                  \E k95 \in 0..(n - 1), k99 \in 0..(n - 1) :
                      /\ IsFloorOfShare(k95, 95, n)
                      /\ IsFloorOfShare(k99, 99, n)
                      /\ IsElementAtSortedIndex(all_metrics, r.latency_p95, k95)
                      /\ IsElementAtSortedIndex(all_metrics, r.latency_p99, k99)
            /\ n = 0 =>
                  /\ r.latency_min = 0
                  /\ r.latency_max = 0
                  /\ r.latency_mean = Zero
                  /\ r.latency_median = Zero
                  /\ r.latency_p95 = 0
                  /\ r.latency_p99 = 0
            /\ all_metrics = TenLatencies => r.latency_p95 = 100

\* C6 witness: the result over the latencies 10, 20, ..., 100 has p95 100.
C6_Witness ==
    /\ pc = "done"
    /\ all_metrics = TenLatencies
    /\ results[1].latency_p95 = 100

\* C7: the latency statistics read the successful records only: the hundred
\* requests with 5 failures of status 500 give error_rate 0.05, 5 5xx errors
\* and the p95 of the 95 successful latencies (48, the element at index 90);
\* and giving any failed record another latency changes no latency
\* statistic.
C7_FailuresDoNotCount ==
    pc = "done" =>
        LET r == results[1]
            stats == [latency_min |-> r.latency_min,
                      latency_max |-> r.latency_max,
                      latency_mean |-> r.latency_mean,
                      latency_median |-> r.latency_median,
                      latency_p95 |-> r.latency_p95,
                      latency_p99 |-> r.latency_p99]
        IN  /\ all_metrics = HundredRequests =>
                  /\ r.error_rate = [num |-> 1, den |-> 20]
                  /\ r.error_5xx_count = 5
                  /\ r.latency_p95 = 48
                  /\ IsElementAtSortedIndex(all_metrics, r.latency_p95, 90)
            /\ \A i \in 1..Len(all_metrics) :
                  ~all_metrics[i].success =>
                      \A l \in {1, 5000} :
                          LatencyStats([all_metrics EXCEPT ![i].latency_ms = l])
                              = stats

\* C7 witness: the result over the hundred requests.
C7_Witness ==
    /\ pc = "done"
    /\ all_metrics = HundredRequests
    /\ results[1].failed_requests = 5
    /\ results[1].latency_p95 = 48

\* C8: once an iteration's burst determination is due it yields a value:
\* never a burst with no interval configured, always a burst in iteration 0
\* with an interval configured, and with an interval that is a multiple of
\* the cadence a burst exactly when the iteration index is a multiple of
\* interval / 10.
C8_BurstIsFunctionOfIndex ==
    LET interval == params.burst_interval_seconds
    IN  /\ pc # "raised"
        /\ pc \in AfterDetermine =>
              /\ interval = 0 => ~is_burst
              /\ interval # 0 /\ iteration = 0 => is_burst
              /\ interval # 0 /\ interval % 10 = 0 =>
                    (is_burst <=> iteration % (interval \div 10) = 0)

\* C9 as stated: the worker count is the baseline outside a burst and
\* round(baseline * multiplier) in a burst.
C9_WorkersRoundedInBurst ==
    pc \in AfterDetermine =>
        workers = IF is_burst
                  THEN RoundHalfEven(params.concurrent_clients
                                         * params.burst_multiplier, FracDen)
                  ELSE params.concurrent_clients

\* C9 amended: the worker count is the baseline outside a burst and
\* baseline * multiplier truncated to an integer (its floor) in a burst.
C9_WorkersTruncatedInBurst ==
    pc \in AfterDetermine =>
        IF is_burst
        THEN /\ workers * FracDen
                    <= params.concurrent_clients * params.burst_multiplier
             /\ params.concurrent_clients * params.burst_multiplier
                    < (workers + 1) * FracDen
        ELSE workers = params.concurrent_clients

\* C9 witness: a burst iteration whose baseline * multiplier is not an
\* integer.
C9_Witness ==
    /\ pc \in AfterDetermine
    /\ is_burst
    /\ (params.concurrent_clients * params.burst_multiplier) % FracDen # 0
    /\ workers >= 1

\* C10 as stated: the upload count is round(workers * upload_ratio) and the
\* download count the remainder.
C10_UploadsRounded ==
    pc \in AfterSplit =>
        /\ num_uploads = RoundHalfEven(workers * params.upload_ratio, FracDen)
        /\ num_downloads = workers - num_uploads

\* C10 amended: the upload count is workers * upload_ratio truncated to an
\* integer (its floor) and the download count the remainder.
C10_UploadsTruncated ==
    pc \in AfterSplit =>
        /\ num_uploads * FracDen <= workers * params.upload_ratio
        /\ workers * params.upload_ratio < (num_uploads + 1) * FracDen
        /\ num_downloads = workers - num_uploads
        /\ num_uploads >= 0
        /\ num_downloads >= 0

\* C10 witness: an iteration whose workers * upload_ratio is not an integer.
C10_Witness ==
    /\ pc \in AfterSplit
    /\ workers >= 1
    /\ (workers * params.upload_ratio) % FracDen # 0
    /\ num_uploads + num_downloads = workers

\* Positions at which the iteration's batches have run and metrics holds the
\* iteration's records.
AfterBatches == {"extend", "join_fleet", "join_alb", "pace"}

\* The records of the given operation in a list of records.
RecordsOf(ms, operation) == {i \in 1..Len(ms) : ms[i].operation = operation}

\* C11: without an artifact list no iteration issues an upload, whatever the
\* upload ratio; the download count is still workers minus the computed
\* upload count, so the iteration issues three requests per download and,
\* with upload_ratio 1.0, none at all.
C11_NoArtifactsNoUploads ==
    (pc \in AfterBatches /\ ~params.package_paths) =>
        LET uploads == (workers * params.upload_ratio) \div FracDen
        IN  /\ RecordsOf(metrics, "upload_package") = {}
            /\ num_downloads = workers - uploads
            /\ Len(metrics) = 3 * (workers - uploads)
            /\ params.upload_ratio = FracDen => metrics = << >>

\* C11 witness: an iteration with upload_ratio 1.0 and no artifact list has
\* run its batches and issued no request.
C11_Witness ==
    /\ pc \in AfterBatches
    /\ ~params.package_paths
    /\ params.upload_ratio = FracDen
    /\ workers >= 1
    /\ num_uploads = workers
    /\ metrics = << >>

Occurrences(rs, r) == Cardinality({i \in 1..Len(rs) : rs[i] = r})

\* The records of all the futures' values.
RECURSIVE ValuesOf(_)
ValuesOf(fs) ==
    IF fs = << >> THEN << >> ELSE fs[1].value \o ValuesOf(Tail(fs))

\* C14: for any plan and worker limit W >= 1, never more than W operations
\* run at the same moment, every planned operation is started exactly once,
\* and the call returns only after all of them have finished.
C14_AtMostWInFlight ==
    lg_pc # "idle" =>
        /\ lg_args.max_workers >= 1
        /\ Len(futures) = lg_args.n
        /\ Cardinality(FuturesIn(futures, "running")) <= lg_args.max_workers
        /\ \A i \in 1..Len(futures) :
              /\ futures[i].starts <= 1
              /\ futures[i].state # "pending" => futures[i].starts = 1
        /\ lg_pc = "returned" =>
              \A i \in 1..Len(futures) :
                  futures[i].state = "done" /\ futures[i].starts = 1

\* C14 witness: the limit binds: W operations are running and another one
\* is waiting for a worker.
C14_Witness ==
    /\ lg_pc = "as_completed"
    /\ lg_args.max_workers >= 2
    /\ Cardinality(FuturesIn(futures, "running")) = lg_args.max_workers
    /\ FuturesIn(futures, "pending") # {}

\* C15: a failing operation neither cancels nor blocks its siblings and no
\* record is lost: whatever requests fail, the batch returned holds exactly
\* the records of every operation, one per single operation and three per
\* composite one, in some order.
C15_NoRecordLost ==
    /\ lg_pc = "as_completed" =>
          \A i \in 1..Len(futures) :
              futures[i].state = "done" =>
                  Len(futures[i].value)
                      = IF IsList(lg_args.operation_func) THEN 3 ELSE 1
    /\ lg_pc = "returned" =>
          /\ Len(lg_results)
                = lg_args.n * (IF IsList(lg_args.operation_func) THEN 3 ELSE 1)
          /\ \A i \in 1..Len(futures) : futures[i].state = "done"
          /\ \A i \in 1..Len(lg_results) :
                Occurrences(lg_results, lg_results[i])
                    = Occurrences(ValuesOf(futures), lg_results[i])

\* C15 witness: a batch has returned in which an operation failed and a
\* sibling started after it succeeded.
C15_Witness ==
    /\ lg_pc = "returned"
    /\ lg_args.n >= 2
    /\ ~futures[1].value[1].success
    /\ futures[2].value[1].success
    /\ Len(lg_results) = Len(ValuesOf(futures))

\* Positions of the control thread at which the iteration's collectors have
\* been started, if any is.
AfterStart ==
    {"split", "downloads", "uploads", "extend", "join_fleet", "join_alb",
     "pace"}

\* The number of warnings of the given text logged so far.
WarningsOf(text) == Cardinality({i \in 1..Len(warnings) : warnings[i] = text})

\* The collector processes of the given flavor that are running.
AliveOf(flavor) == {q \in alive : children[q].flavor = flavor}

\* C16: collectors are launched only in burst iterations; in a burst
\* iteration each configured collector is started exactly once, at the one
\* step that precedes the load batches, and when the scheduler computes the
\* pacing sleep it has joined each of them: the process has ended, or its
\* budget ran out and the warning was logged.
C16_CollectorsOnlyInBursts ==
    /\ [](\A q \in DOMAIN children :
              /\ children[q].is_burst
              /\ IsBurst(children[q].iteration, params.burst_interval_seconds))
    /\ [](pc \in AfterStart =>
              /\ diagnostics_process # None
                    <=> is_burst /\ params.diagnostics_collector
              /\ alb_diagnostics_process # None
                    <=> is_burst /\ params.alb_diagnostics_collector
              /\ \A q \in {diagnostics_process, alb_diagnostics_process}
                              \ {None} :
                     q \in DOMAIN children /\ children[q].iteration = iteration)
    /\ [](pc = "downloads" =>
              /\ metrics = << >>
              /\ Cardinality({q \in DOMAIN children :
                                  children[q].iteration = iteration})
                    = Cardinality({diagnostics_process,
                                   alb_diagnostics_process} \ {None}))
    /\ [][DOMAIN children' # DOMAIN children =>
              /\ pc = "start_diagnostics" /\ pc' = "split"
              /\ DOMAIN children \subseteq DOMAIN children'
              /\ \A q \in DOMAIN children' \ DOMAIN children :
                     children'[q].step = "collecting" /\ q \in alive']_vars
    /\ [](pc = "pace" =>
              /\ Cardinality(AliveOf("fleet"))
                    <= WarningsOf("EC2 diagnostics collection timed out after 120s")
              /\ Cardinality(AliveOf("alb"))
                    <= WarningsOf("ALB/ECS diagnostics collection timed out after 30s"))

\* C16 witness: a burst iteration is about to pace; both its collectors were
\* started before its batch and have been joined.
C16_Witness ==
    /\ pc = "pace"
    /\ is_burst
    /\ metrics # << >>
    /\ diagnostics_process # None
    /\ alb_diagnostics_process # None
    /\ diagnostics_process \notin alive
    /\ alb_diagnostics_process \notin alive
    /\ children[alb_diagnostics_process].file # NoFile

\* A join step of the control thread for the process q with the budget of
\* the given number of seconds: the wait is at most the budget; either
\* the process has ended and nothing is logged, or the budget has passed, the
\* process is left as it was, still running, and the warning is logged.
BoundedJoin(q, budget, text) ==
    (q # None /\ q \in alive) =>
        /\ now' - now <= budget * TicksPerSecond
        /\ \/ /\ q \notin alive'
              /\ children'[q].step = "exited"
              /\ warnings' = warnings
           \/ /\ now' - now = budget * TicksPerSecond
              /\ q \in alive'
              /\ children'[q] = children[q]
              /\ warnings' = Append(warnings, text)

\* C17: after the load batch the scheduler waits at most 120 seconds for the
\* fleet collector and at most 30 for the routing-layer collector; a
\* collector still running when its budget expires is left running, a
\* warning is recorded, and the scheduler goes on: to the next join, to the
\* pacing, and from there to the loop's test.
C17_JoinsAreBounded ==
    /\ [][(pc = "join_fleet" /\ pc' # pc) =>
              /\ pc' = "join_alb"
              /\ BoundedJoin(diagnostics_process, FleetJoinTimeout,
                             "EC2 diagnostics collection timed out after 120s")]_vars
    /\ [][(pc = "join_alb" /\ pc' # pc) =>
              /\ pc' = "pace"
              /\ BoundedJoin(alb_diagnostics_process, AlbJoinTimeout,
                             "ALB/ECS diagnostics collection timed out after 30s")]_vars
    /\ [][(pc = "pace" /\ pc' # pc) => pc' = "loop"]_vars
    /\ [](/\ pc = "join_fleet" => ENABLED JoinFleet
          /\ pc = "join_alb" => ENABLED JoinAlb
          /\ pc = "pace" => ENABLED Pace)

\* C17 witness: the fleet collector was abandoned after its budget, is still
\* running, and the run has gone on to return its result.
C17_Witness ==
    /\ pc = "done"
    /\ Len(results) = 1
    /\ WarningsOf("EC2 diagnostics collection timed out after 120s") = 1
    /\ AliveOf("fleet") # {}
    /\ now >= FleetJoinTimeout * TicksPerSecond

\* The collector process q took its snapshot and wrote it out in full.
Succeeded(q) ==
    /\ q \in DOMAIN children
    /\ children[q].file # NoFile
    /\ children[q].step \in {"written", "exited"}

\* The fleet collector process q failed, or did not end within its budget.
FailedOrTimedOut(q) ==
    /\ q \in DOMAIN children
    /\ \/ children[q].exitcode = 1
       \/ q \in alive
       \/ children[q].step = "terminated"

\* C18: when the fleet collector of a burst iteration fails or exceeds its
\* budget while the routing-layer collector succeeds, then at the iteration's
\* pacing the routing-layer snapshot is on storage, a warning has been
\* logged, every record of the iteration's batch has been collected and the
\* scheduler has not raised; and once the diagnostics have been saved, the
\* routing-layer snapshot of that iteration is in the saved report.
C18_FleetFailureIsolated ==
    /\ DOMAIN children # {} => pc # "raised"
    /\ (/\ pc = "pace"
        /\ diagnostics_process # None
        /\ alb_diagnostics_process # None
        /\ FailedOrTimedOut(diagnostics_process)
        /\ Succeeded(alb_diagnostics_process)) =>
           /\ disk[children[alb_diagnostics_process].file].complete
           /\ disk[children[alb_diagnostics_process].file].iteration
                 = iteration
           /\ warnings # << >>
           /\ Len(metrics) = 3 * workers
    /\ test_pc \in {"finished", "save_raised", "exited"} =>
           \A i \in 0..iteration :
               (/\ FailedOrTimedOut(FleetProcess(i))
                /\ Succeeded(AlbProcess(i))) =>
                   \E k \in 1..Len(saved) :
                       /\ saved[k].flavor = "alb"
                       /\ \E j \in 1..Len(saved[k].snapshots) :
                              saved[k].snapshots[j].iteration = i

\* C19: at every moment every snapshot file on storage holds a complete
\* snapshot, and only the process that produced a file has written it.
C19_SnapshotFilesComplete ==
    \A f \in DOMAIN disk :
        /\ disk[f].complete
        /\ Cardinality(disk[f].writers) = 1

\* C20: when collection fails fatally on one node, the iteration's snapshot
\* is still persisted and holds the data of every other node: once a fleet
\* collector process has ended, its snapshot file exists and has an entry
\* for each node that did not fail.
C20_NodeFailureIsolated ==
    \A q \in DOMAIN children :
        (children[q].flavor = "fleet" /\ children[q].step = "exited") =>
            \E f \in SnapshotFiles(disk, "fleet") :
                /\ disk[f].iteration = children[q].iteration
                /\ \A n \in 1..Len(cloud.asg) :
                       cloud.asg[n] # "raises" =>
                           \E j \in 1..Len(disk[f].data.instances) :
                               disk[f].data.instances[j].instance_id = n

\* The five commands, in the order they are run.
CommandAt == << "docker stats", "docker ps", "free", "top", "iostat" >>

\* The call of _collect_instance_diagnostics is over.
NodeCallOver == node_pc \in {"returned", "raised"}

\* The text says that a command is not installed.
SaysUnavailable(text) ==
    \E i \in 1..Len(text) : text[i] \in {"command not found", "No such file"}

\* The k-th command was run and raised a fault other than the optional
\* command's being unavailable.
FatalAt(k) ==
    /\ k <= Len(answers)
    /\ answers[k].kind = "raised"
    /\ ~(CommandAt[k] = "iostat" /\ SaysUnavailable(answers[k].exc))

\* The k-th command returned with a stderr that is to be recorded.
StderrAt(k) ==
    /\ k <= Len(answers)
    /\ answers[k].kind = "returned"
    /\ answers[k].stderr # << >>
    /\ ~(CommandAt[k] = "iostat" /\ SaysUnavailable(answers[k].stderr))

\* The error lines of the commands of ks, a sequence of positions.
RECURSIVE ErrorLinesOf(_)
ErrorLinesOf(ks) ==
    IF ks = << >> THEN << >>
    ELSE (IF StderrAt(Head(ks))
          THEN << << CommandAt[Head(ks)] \o " stderr",
                     answers[Head(ks)].stderr >> >>
          ELSE << >>) \o ErrorLinesOf(Tail(ks))

\* Unavailability of iostat is not fatal and leaves no error line, every
\* other fault is fatal, and nothing else is.
FaultsFatalButUnavailable ==
    /\ node_pc = "raised" <=> \E k \in 1..5 : FatalAt(k)
    /\ node_pc = "raised" => diag = None
    /\ node_pc = "returned" =>
           /\ Len(answers) = 5
           /\ SaysUnavailable(answers[5].exc) \/
                  SaysUnavailable(answers[5].stderr) =>
                  \A i \in 1..Len(diag.errors) :
                      diag.errors[i][1] # "iostat stderr"
           /\ answers[5].kind = "raised" =>
                  /\ diag.io_stats = None
                  /\ debug_log = << "iostat not available" >>

\* C21 as stated: in the fleet collector the optional disk-I/O command being
\* unavailable (command not found, in stderr or as a raised fault) is not
\* fatal and is not added to the node's error list, a fault raised by any
\* other command, or any other fault of the optional command, is fatal to the
\* node's snapshot, and the non-empty stderr of every command that did not
\* raise is recorded in the node's error list without being fatal.
C21_EveryStderrRecorded ==
    NodeCallOver =>
        /\ FaultsFatalButUnavailable
        /\ node_pc = "returned" =>
               diag.errors = ErrorLinesOf(<< 1, 2, 3, 4, 5 >>)

\* C21, amended: the optional disk-I/O command being unavailable is not
\* fatal and is not added to the node's error list, every other fault of a
\* command is fatal to the node's snapshot, and the non-empty stderr of a
\* command that did not raise is recorded in the node's error list, in the
\* commands' order, for docker stats, free, top and iostat; the stderr of
\* docker ps is dropped.
C21_StderrRecordedButOfDockerPs ==
    NodeCallOver =>
        /\ FaultsFatalButUnavailable
        /\ node_pc = "returned" =>
               diag.errors = ErrorLinesOf(<< 1, 3, 4, 5 >>)

\* A call returned though iostat raised that it is not installed, docker ps
\* wrote to stderr, and the other three commands' stderr was recorded.
C21_Witness ==
    /\ node_pc = "returned"
    /\ answers[5].kind = "raised"
    /\ answers[2].stderr # << >>
    /\ Len(diag.errors) = 3

\* The indices of the failing records of ms.
FailingIndices(ms) == {i \in 1..Len(ms) : ~ms[i].success}

\* The index in ms of its k-th failing record.
KthFailing(ms, k) ==
    CHOOSE i \in FailingIndices(ms) :
        Cardinality({j \in FailingIndices(ms) : j < i}) = k - 1

InstallOrder ==
    << [operation |-> "get_package_redirect", url |-> "/test-package-000/"],
       [operation |-> "get_package",
        url |-> "/simple/test-package-000/"],
       [operation |-> "download_wheel",
        url |-> "/packages/test-package-000-2.0.0-py3-none-any.whl"] >>

\* The records are those of the first Len(records) calls of an install, in
\* order, and record k is what call k ended in.
InstallRecords(records, outcomes) ==
    /\ Len(records) = Len(outcomes)
    /\ Len(records) <= 3
    /\ \A k \in 1..Len(records) :
          /\ records[k].operation = InstallOrder[k].operation
          /\ records[k].url = InstallOrder[k].url
          /\ records[k].status_code = outcomes[k].status_code
          /\ records[k].success =
                 (outcomes[k].kind = "response"
                     /\ outcomes[k].status_code < 400)

\* C23: a composite simulated-install operation always issues exactly three
\* calls sequentially in the order legacy-path probe, canonical metadata
\* fetch, artifact download, and returns exactly three Metric Records in that
\* order, one per call, even when an earlier call of the three fails.
C23_ThreeCallsNoShortCircuit ==
    /\ install_calls # None =>
           /\ InstallRecords(
                  [k \in 1..Len(install_calls) |-> install_calls[k].record],
                  [k \in 1..Len(install_calls) |-> install_calls[k].outcome])
           /\ Len(install_calls) = 0 => ENABLED InstallRedirect
           /\ Len(install_calls) = 1 => ENABLED InstallGetPackageInfo
           /\ Len(install_calls) = 2 => ENABLED InstallDownloadWheel
           /\ Len(install_calls) < 3 <=> ~ENABLED InstallReturns
    /\ Len(returned) > 0 /\ returned[1].operation = "get_package_redirect" =>
           /\ Len(returned) = 3
           /\ InstallRecords(returned, call_outcomes)

\* An install returned three records though its probe failed on the
\* connection and its metadata fetch was answered 404.
C23_Witness ==
    /\ Len(returned) = 3
    /\ call_outcomes[1].kind = "exception"
    /\ returned[1].operation = "get_package_redirect"
    /\ ~returned[1].success
    /\ returned[2].status_code = 404
    /\ returned[3].operation = "download_wheel"
    /\ returned[3].success

\* The pacing step of lines 519-524 is taken.
Paces == pc = "pace" /\ pc' = "loop"

\* C24 as stated: at the end of each iteration the scheduler sleeps for
\* max(0, cadence - elapsed_iteration_time) with cadence 10, where the
\* elapsed time covers the load batch and the collector joins: no sleep when
\* the iteration took at least the cadence, and otherwise consecutive
\* iteration starts are spaced by one cadence.
C24_SpacedByOneCadence ==
    [][Paces =>
          LET iteration_time == now - iteration_start
          IN  /\ now' - now = Max(0, Cadence * TicksPerSecond - iteration_time)
              /\ iteration_time < Cadence * TicksPerSecond =>
                     now' - iteration_start = Cadence * TicksPerSecond]_vars

\* C24, amended: the scheduler sleeps for max(0, 10 - int(elapsed iteration
\* time)), a whole number of seconds, the elapsed time (the load batch and
\* the collector joins) truncated to whole seconds: no sleep when the
\* iteration took at least the cadence, and otherwise the next iteration
\* starts at least one cadence and less than one cadence and a second after
\* this one.
C24_SpacedByCadenceToTheSecond ==
    [][Paces =>
          LET iteration_time == now - iteration_start
              slept == now' - now
          IN  /\ slept % TicksPerSecond = 0
              /\ slept >= 0
              /\ iteration_time >= Cadence * TicksPerSecond => slept = 0
              /\ iteration_time < Cadence * TicksPerSecond =>
                     /\ slept > 0
                     /\ now' - iteration_start >= Cadence * TicksPerSecond
                     /\ now' - iteration_start
                            < (Cadence + 1) * TicksPerSecond]_vars

\* An iteration whose batch and collector join took a fraction of a second
\* more than whole seconds has been paced: the next one starts later than a
\* cadence after it.
C24_Witness ==
    /\ pc = "loop"
    /\ iteration = 1
    /\ diagnostics_process # None
    /\ diagnostics_process \notin alive
    /\ now - iteration_start > Cadence * TicksPerSecond
    /\ now - iteration_start < (Cadence + 1) * TicksPerSecond

\* s is a prefix of t.
IsPrefix(s, t) == Len(s) <= Len(t) /\ \A i \in 1..Len(s) : t[i] = s[i]

\* C25: the in-memory Metric Record list of a run is modified only by the
\* control thread, and only by appending a whole completed batch after the
\* Load Generator has returned: no worker thread and no collector process
\* writes to it, records in it are never removed or changed, and its length
\* never decreases during the run.
C25_RecordsOnlyAppendedByControlThread ==
    [][/\ IsPrefix(all_metrics, all_metrics')
       /\ all_metrics' # all_metrics =>
              /\ pc = "extend" /\ pc' = "join_fleet"
              /\ all_metrics' = all_metrics \o metrics
              /\ Len(metrics) = SumSeq(batches) - Len(all_metrics)
              /\ UNCHANGED << children, disk, alive >>]_vars

\* The batch of a second iteration has been appended after the records of
\* the first while a collector process was running.
C25_Witness ==
    /\ pc = "join_fleet"
    /\ iteration = 1
    /\ alive # {}
    /\ Len(metrics) > 0
    /\ Len(all_metrics) > Len(metrics)
    /\ Len(all_metrics) = SumSeq(batches)

\* The reorderings of a list of n records that are looked at: all of them
\* for a short list, and for a scenario its reversal and a riffle of it.
Reorderings(n) ==
    IF n <= MaxAggLen + 1 THEN Permutations(1..n)
    ELSE {[i \in 1..n |-> n + 1 - i],
          [i \in 1..n |-> IF 2 * i <= n THEN 2 * i
                          ELSE 2 * (i - n \div 2) - 1]}

\* The list ms in the order f.
Reordered(ms, f) == [i \in 1..Len(ms) |-> ms[f[i]]]

\* An Aggregated Result without its failure samples.
ButSamples(r) == [f \in DOMAIN r \ {"error_samples"} |-> r[f]]

\* C26: the Aggregator does not depend on record order: for two record
\* lists that are permutations of each other, with the same start and end
\* timestamps, totals, success and failure counts, error rate, all latency
\* statistics, throughput, the status-code histogram, the 4xx and 5xx counts
\* and the per-operation breakdown are identical; only the failure samples
\* follow accumulation order.
C26_OrderDoesNotMatter ==
    pc = "done" =>
        \A f \in Reorderings(Len(all_metrics)) :
            /\ {f[i] : i \in 1..Len(all_metrics)} = 1..Len(all_metrics)
            /\ ButSamples(AggregateMetrics(start_time, end_time,
                                           Reordered(all_metrics, f)))
                   = ButSamples(results[1])

\* The result of a list of successes with unlike latencies and of unlike
\* failures, whose failure samples alone change when the list is reordered.
C26_Witness ==
    /\ pc = "done"
    /\ Len(all_metrics) = 4
    /\ \E i, j \in 1..Len(all_metrics) :
          /\ all_metrics[i].success /\ all_metrics[j].success
          /\ all_metrics[i].latency_ms # all_metrics[j].latency_ms
    /\ \E f \in Reorderings(Len(all_metrics)) :
          AggregateMetrics(start_time, end_time,
                           Reordered(all_metrics, f)).error_samples
              # results[1].error_samples

\* The per-iteration snapshot files of both collectors.
AllSnapshotFiles(dk) == SnapshotFiles(dk, "fleet") \cup SnapshotFiles(dk, "alb")

\* A call of save_diagnostics is made in this step.
Saves == test_pc \in {"run", "save_alb"} /\ test_pc' # test_pc

\* C27: Diagnostic Snapshots are written once and never mutated:
\* consolidation at save time (save_diagnostics of either collector) only
\* reads the per-iteration snapshot files and creates new consolidated report
\* files; it never rewrites, truncates or deletes a per-iteration snapshot
\* file, and no per-iteration snapshot file is written by more than one
\* collect_snapshot call.
C27_SnapshotsWrittenOnceNeverMutated ==
    /\ [](\A f \in AllSnapshotFiles(disk) :
              /\ Cardinality(disk[f].writers) = 1
              /\ disk[f].writers \subseteq DOMAIN children)
    /\ [][/\ \A f \in AllSnapshotFiles(disk) :
                /\ f \in AllSnapshotFiles(disk')
                /\ disk[f].complete => disk'[f] = disk[f]
          /\ Saves =>
                /\ \A f \in AllSnapshotFiles(disk) : disk'[f] = disk[f]
                /\ AllSnapshotFiles(disk') = AllSnapshotFiles(disk)
                /\ \A f \in DOMAIN disk' \ DOMAIN disk :
                      disk'[f].writers = {"save_diagnostics"}]_vars

\* Both collectors' snapshots of a burst iteration were consolidated into
\* reports, and the snapshot files are still there beside the reports.
C27_Witness ==
    /\ test_pc = "finished"
    /\ Len(saved) = 2
    /\ SnapshotFiles(disk, "fleet") # {}
    /\ SnapshotFiles(disk, "alb") # {}
    /\ \A f \in AllSnapshotFiles(disk) : disk[f].complete
    /\ Cardinality(DOMAIN disk \ AllSnapshotFiles(disk)) = 4

\* C28: for every configured burst interval greater than zero, including an
\* interval shorter than the 10-unit cadence or one that is not a multiple of
\* it, burst determination in every iteration completes without a fault and
\* yields burst or baseline, so the run proceeds to issue requests.
C28_BurstDeterminationCompletes ==
    params.burst_interval_seconds > 0 =>
        /\ pc # "raised"
        /\ pc \in AfterDetermine =>
               /\ is_burst \in BOOLEAN
               /\ workers = IF is_burst
                            THEN (params.concurrent_clients
                                     * params.burst_multiplier) \div FracDen
                            ELSE params.concurrent_clients

\* C29: in every Aggregated Result failed_requests equals the number of
\* records with status_code 0 plus error_4xx_count plus error_5xx_count:
\* every record counted as a 4xx or 5xx error is a failed request, and every
\* failed request is counted in exactly one of the three groups, for any mix
\* of read and upload records.
C29_FailuresAreTheErrorCounts ==
    pc = "done" =>
        LET r == results[1]
            unreached == Cardinality({i \in 1..Len(all_metrics) :
                                         all_metrics[i].status_code = 0})
        IN  /\ r.failed_requests
                   = unreached + r.error_4xx_count + r.error_5xx_count
            /\ \A i \in 1..Len(all_metrics) :
                  all_metrics[i].status_code >= 400 =>
                      ~all_metrics[i].success

\* C30: at any moment of a run at most one fleet collector process and at
\* most one routing-layer collector process launched by that run is alive:
\* when a burst iteration starts its collectors, no collector of the same
\* flavor started by an earlier iteration (in particular one abandoned after
\* its join budget) is still running.
C30_OneCollectorPerFlavor ==
    /\ Cardinality({q \in alive : children[q].flavor = "fleet"}) <= 1
    /\ Cardinality({q \in alive : children[q].flavor = "alb"}) <= 1

=============================================================================
